---------------------------- MODULE Spec2Model ----------------------------
(***************************************************************************)
(* A model of elegantrl/agent.py: the agents' experience collection, the   *)
(* target-network discipline, the update loops and the return estimators.  *)
(* Every group of variables belongs to one part of the agent; each part    *)
(* has its own specification, and the other groups stay at their initial   *)
(* value in it.                                                            *)
(***************************************************************************)
EXTENDS Integers, Sequences, FiniteSets, TLC

(***************************************************************************)
(* Bounds of the model.                                                    *)
(***************************************************************************)
MaxCalls == 2
MaxTargetStep == 3
MaxEnv == 2

(***************************************************************************)
(* Helpers: Python's list slicing and sequence utilities.                  *)
(***************************************************************************)
Min(a, b) == IF a <= b THEN a ELSE b

\* lst[:j] for j >= 0
PySliceTo(lst, j) == SubSeq(lst, 1, Min(j, Len(lst)))

\* lst[j:] for j >= 0
PySliceFrom(lst, j) == SubSeq(lst, Min(j, Len(lst)) + 1, Len(lst))

RECURSIVE Flatten(_)
Flatten(ss) == IF ss = <<>> THEN <<>> ELSE Head(ss) \o Flatten(Tail(ss))

(***************************************************************************)
(* Collection: AgentPPO.explore_env, AgentPPO.explore_vec_env and          *)
(* AgentDiscretePPO.explore_env of the on-policy agents,                   *)
(* AgentBase.explore_one_env and AgentBase.explore_vec_env of the others.  *)
(*                                                                         *)
(* The environment is a collaborator: an observation is the number of      *)
(* steps since the last reset, reset() returns ResetState, step() returns  *)
(* the next observation and a done flag the environment chooses.           *)
(* A transition is [env, n, state, done]: n numbers the steps of one       *)
(* environment, so <<env, n>> identifies the environment step that made    *)
(* the transition.  resetCalls counts the calls of env.reset() the loops   *)
(* have made for each environment.  explore_env is the attribute of the    *)
(* instance of that name, the routine a driver reaches by                  *)
(* agent.explore_env(env, target_step); lastCall tells of the last call    *)
(* whether it went through that attribute, which routine ran and whether   *)
(* the last step it collected left an episode open.                        *)
(***************************************************************************)
VARIABLES agentClass, trajectory_list, states, stepCount, returned,
          lastCurrent, lastDoneSeen, exploreCalls, resetCalls,
          explore_env, lastCall

exploreVars == <<agentClass, trajectory_list, states, stepCount, returned,
                 lastCurrent, lastDoneSeen, exploreCalls, resetCalls,
                 explore_env, lastCall>>

\* soft_update on a pair of networks: the parameters of the two networks,
\* the target's parameters before the first call, tau, and the calls made
VARIABLES target_net, current_net, target0, current0, tau, softCalls

softVars == <<target_net, current_net, target0, current0, tau, softCalls>>

\* an agent after init and its update_net calls: the class, the flag passed
\* as if_use_per / if_per_or_gae, the objects bound to the four network
\* roles, the strategy slots, self.update_freq, the kinds of write every
\* network object has received, and of the last update_net call: its inputs,
\* the operations it performed in order, and how it ended
VARIABLES uClass, if_use_per, cri, act, cri_target, act_target,
          get_obj_critic, get_reward_sum, update_freq, writers,
          callInput, log, outcome, updCalls

updVars == <<uClass, if_use_per, cri, act, cri_target, act_target,
             get_obj_critic, get_reward_sum, update_freq, writers,
             callInput, log, outcome, updCalls>>

\* the on-policy return estimators: the arguments of get_reward_sum, the
\* two arrays it returns, and which estimator produced them
VARIABLES buf_len, ary_reward, ary_mask, ary_value, ary_r_sum, ary_advantage,
          estimator

rsVars == <<buf_len, ary_reward, ary_mask, ary_value, ary_r_sum,
            ary_advantage, estimator>>

\* select_action of the discrete value-based agents: the class, its
\* explore_rate and action_dim, and of the last call: the online critic's
\* output for the state, the value rd.rand() drew, the action returned and
\* the branch taken
VARIABLES saClass, explore_rate, action_dim, q_out, rand_draw, a_int, branch

saVars == <<saClass, explore_rate, action_dim, q_out, rand_draw, a_int, branch>>

\* the critic objectives on one sampled batch: the class, the online
\* critics' values q1 and q2 of the sampled state-action pairs (q2 is q1 for
\* a single critic), the labels, the importance weights, the objectives
\* get_obj_critic_raw and get_obj_critic_per return on that batch, and the
\* calls get_obj_critic_per made on the buffer
VARIABLES objClass, q1, q2, q_label, is_weights, obj_raw, obj_per, per_ops

objVars == <<objClass, q1, q2, q_label, is_weights, obj_raw, obj_per, per_ops>>

\* the temperature of the SAC agents: the class, self.get_obj_critic,
\* self.alpha_log (in whole units), its value at the end of every iteration
\* of the last update_net call, and the calls made
VARIABLES alClass, al_get_obj_critic, alpha_log, alpha_trace, alphaCalls

alphaVars == <<alClass, al_get_obj_critic, alpha_log, alpha_trace, alphaCalls>>

\* the bootstrap target of the discrete value-based agents: the class, the
\* flag given to init, the target critic's outputs q1 and q2 for the sampled
\* next state (one value per action; q2 is q1 for a single critic), the
\* sampled reward and mask, and of the objective update_net executed: the
\* function it was, its q_label, and how the call ended
VARIABLES bClass, b_if_use_per, next_q1, next_q2, b_reward, b_mask,
          b_executed, b_q_label, b_outcome

bootVars == <<bClass, b_if_use_per, next_q1, next_q2, b_reward, b_mask,
              b_executed, b_q_label, b_outcome>>

\* the clipped surrogate of the PPO agents on one minibatch: the class, its
\* clip attribute, the new and old log-probabilities and the advantages of
\* the samples, and what the iteration computes from them
VARIABLES pClass, ratio_clip, new_logprob, old_logprob, mb_advantage,
          ratio, surrogate1, surrogate2, obj_surrogate

surrVars == <<pClass, ratio_clip, new_logprob, old_logprob, mb_advantage,
              ratio, surrogate1, surrogate2, obj_surrogate>>

\* save_or_load_agent: the class, the state_dict of every network and
\* optimizer object, the content of the file of every role in cwd, and of
\* the last call: if_save, the objects' states and the files before it, and
\* the roles it loaded, in order
VARIABLES svClass, obj_state, files, last_if_save, prev_obj_state, prev_files,
          loaded, saveCalls

saveVars == <<svClass, obj_state, files, last_if_save, prev_obj_state,
              prev_files, loaded, saveCalls>>

\* init: the class, the env_num and gpu_id of the last call of init, the
\* length of self.trajectory_list (-1 while it is None), the attribute
\* self.explore_env, and the number of calls
VARIABLES iClass, arg_env_num, arg_gpu_id, trajectory_list_len, i_explore_env,
          initCalls

initVars == <<iClass, arg_env_num, arg_gpu_id, trajectory_list_len,
              i_explore_env, initCalls>>

vars == <<exploreVars, softVars, updVars, rsVars,
          saVars, objVars, alphaVars, bootVars,
          surrVars, saveVars, initVars>>

notExplore == <<softVars, updVars, rsVars, saVars,
                objVars, alphaVars, bootVars, surrVars,
                saveVars, initVars>>

notSoft == <<exploreVars, updVars, rsVars, saVars,
             objVars, alphaVars, bootVars, surrVars,
             saveVars, initVars>>

notUpd == <<exploreVars, softVars, rsVars, saVars,
            objVars, alphaVars, bootVars, surrVars,
            saveVars, initVars>>

notRs == <<exploreVars, softVars, updVars, saVars,
           objVars, alphaVars, bootVars, surrVars,
           saveVars, initVars>>

notSa == <<exploreVars, softVars, updVars, rsVars,
           objVars, alphaVars, bootVars, surrVars,
           saveVars, initVars>>

notObj == <<exploreVars, softVars, updVars, rsVars,
            saVars, alphaVars, bootVars, surrVars,
            saveVars, initVars>>

notAlpha == <<exploreVars, softVars, updVars, rsVars,
              saVars, objVars, bootVars, surrVars,
              saveVars, initVars>>

notBoot == <<exploreVars, softVars, updVars, rsVars,
             saVars, objVars, alphaVars, surrVars,
             saveVars, initVars>>

notSurr == <<exploreVars, softVars, updVars, rsVars,
             saVars, objVars, alphaVars, bootVars,
             saveVars, initVars>>

notSave == <<exploreVars, softVars, updVars, rsVars,
             saVars, objVars, alphaVars, bootVars,
             surrVars, initVars>>

notIni == <<exploreVars, softVars, updVars, rsVars,
            saVars, objVars, alphaVars, bootVars,
            surrVars, saveVars>>

ResetState == 0

EnvStep(state) == state + 1

OnPolicyClasses == {"AgentPPO", "AgentDiscretePPO"}

\* a class that collects with the two loops of AgentBase
BaseExploreClasses == {"AgentDDPG"}

\* the number of steps of a loop that reported done
DoneCount(dones, target_step) == Cardinality({k \in 1..target_step : dones[k]})

\* the observation the loop holds before its k-th step (k = i + 1) when the
\* loop resets the environment after a done step
RECURSIVE StateWithReset(_, _, _)
StateWithReset(s0, dones, k) ==
    IF k = 1 THEN s0
    ELSE IF dones[k - 1] THEN ResetState
         ELSE EnvStep(StateWithReset(s0, dones, k - 1))

\* the same when the loop only takes next_state
RECURSIVE StateNoReset(_, _, _)
StateNoReset(s0, dones, k) ==
    IF k = 1 THEN s0 ELSE EnvStep(StateNoReset(s0, dones, k - 1))

\* last_done after the loop: the last i with done, 0 when there is none
LastDone(dones, target_step) ==
    LET ds == {k \in 1..target_step : dones[k]}
    IN  IF ds = {} THEN 0
        ELSE (CHOOSE k \in ds : \A j \in ds : j <= k) - 1

\* trajectory_temp after the loop of explore_env
TrajectoryTemp(e, s0, dones, target_step) ==
    [k \in 1..target_step |->
        [env |-> e, n |-> stepCount[e] + k,
         state |-> StateWithReset(s0, dones, k), done |-> dones[k]]]

\* trajectory_temps[env_i] after the loop of explore_vec_env
TrajectoryTempVec(e, s0, dones, target_step) ==
    [k \in 1..target_step |->
        [env |-> e, n |-> stepCount[e] + k,
         state |-> StateNoReset(s0, dones, k), done |-> dones[k]]]

\* the part of the returned list taken from trajectory_temp
SpliceHead(temp, last_done) == PySliceTo(temp, last_done + 1)

\* the part of trajectory_temp stored in self.trajectory_list
SpliceTail(temp, last_done) == PySliceFrom(temp, last_done)

\* the routine self.explore_one_env and self.explore_vec_env name: AgentPPO
\* defines explore_vec_env, no class but AgentBase defines explore_one_env
ExploreRoutineOwner(c, name) ==
    IF name = "explore_vec_env" /\ c \in OnPolicyClasses \cup {"AgentSharedPPO"}
    THEN "AgentPPO"
    ELSE "AgentBase"

\* self.explore_env after AgentBase.init ran with env_num: the attribute of
\* the instance, which hides a method explore_env of the class
ExploreEnvAfterInit(c, env_num) ==
    IF env_num > 1
    THEN <<ExploreRoutineOwner(c, "explore_vec_env"), "explore_vec_env">>
    ELSE <<ExploreRoutineOwner(c, "explore_one_env"), "explore_one_env">>

\* lastCall of a call that named its routine itself
DirectCall == [routine |-> <<"None", "None">>, open |-> FALSE]

ExploreInit ==
    /\ agentClass \in OnPolicyClasses \cup BaseExploreClasses
    /\ lastCall = DirectCall
    /\ \E env_num \in 1..MaxEnv :
         /\ explore_env = ExploreEnvAfterInit(agentClass, env_num)
         /\ trajectory_list = [e \in 1..env_num |-> <<>>]
         /\ states = [e \in 1..env_num |-> ResetState]
         /\ stepCount = [e \in 1..env_num |-> 0]
         /\ lastCurrent = [e \in 1..env_num |-> <<>>]
         /\ lastDoneSeen = [e \in 1..env_num |-> FALSE]
         /\ resetCalls = [e \in 1..env_num |-> 0]
    /\ returned = <<>>
    /\ exploreCalls = 0

ExploreIdle ==
    /\ agentClass = "AgentPPO"
    /\ trajectory_list = <<>>
    /\ states = <<>>
    /\ stepCount = <<>>
    /\ lastCurrent = <<>>
    /\ lastDoneSeen = <<>>
    /\ resetCalls = <<>>
    /\ explore_env = <<"None", "None">>
    /\ lastCall = DirectCall
    /\ returned = <<>>
    /\ exploreCalls = 0

\* the body shared by AgentPPO.explore_env and AgentDiscretePPO.explore_env
ExploreEnvBody(target_step, dones) ==
    LET temp == TrajectoryTemp(1, states[1], dones, target_step)
        last_done == LastDone(dones, target_step)
        head == SpliceHead(temp, last_done)
    IN  /\ exploreCalls < MaxCalls
        /\ states' = [states EXCEPT ![1] =
                        StateWithReset(states[1], dones, target_step + 1)]
        /\ returned' = returned \o trajectory_list[1] \o head
        /\ trajectory_list' = [trajectory_list EXCEPT ![1] =
                                 SpliceTail(temp, last_done)]
        /\ stepCount' = [stepCount EXCEPT ![1] = @ + target_step]
        /\ lastCurrent' = [e \in DOMAIN lastCurrent |->
                             IF e = 1 THEN head ELSE <<>>]
        /\ lastDoneSeen' = [e \in DOMAIN lastDoneSeen |->
                              e = 1 /\ \E k \in 1..target_step : dones[k]]
        /\ resetCalls' = [resetCalls EXCEPT ![1] = @ + DoneCount(dones, target_step)]
        /\ exploreCalls' = exploreCalls + 1
        /\ lastCall' = DirectCall
        /\ UNCHANGED <<agentClass, explore_env, notExplore>>

PPO_explore_env ==
    /\ agentClass = "AgentPPO"
    /\ \E target_step \in 0..MaxTargetStep :
         \E dones \in [1..target_step -> BOOLEAN] :
            ExploreEnvBody(target_step, dones)

DiscretePPO_explore_env ==
    /\ agentClass = "AgentDiscretePPO"
    /\ \E target_step \in 0..MaxTargetStep :
         \E dones \in [1..target_step -> BOOLEAN] :
            ExploreEnvBody(target_step, dones)

\* the loop and the splice of AgentPPO.explore_vec_env
PPOExploreVecEnvLoop(target_step, dones) ==
    LET env_num == Len(trajectory_list)
        temp(e) == TrajectoryTempVec(e, states[e], dones[e], target_step)
        last_done(e) == LastDone(dones[e], target_step)
        head(e) == SpliceHead(temp(e), last_done(e))
    IN  /\ states' = [e \in 1..env_num |->
                        StateNoReset(states[e], dones[e], target_step + 1)]
        /\ returned' = returned \o
              Flatten([e \in 1..env_num |-> trajectory_list[e] \o head(e)])
        /\ trajectory_list' = [e \in 1..env_num |->
                                 SpliceTail(temp(e), last_done(e))]
        /\ stepCount' = [e \in 1..env_num |-> stepCount[e] + target_step]
        /\ lastCurrent' = [e \in 1..env_num |-> head(e)]
        /\ lastDoneSeen' = [e \in 1..env_num |->
                              \E k \in 1..target_step : dones[e][k]]
        /\ UNCHANGED resetCalls

PPO_explore_vec_env ==
    /\ agentClass \in OnPolicyClasses
    /\ exploreCalls < MaxCalls
    /\ \E target_step \in 0..MaxTargetStep :
         \E dones \in [1..Len(trajectory_list) -> [1..target_step -> BOOLEAN]] :
            PPOExploreVecEnvLoop(target_step, dones)
    /\ exploreCalls' = exploreCalls + 1
    /\ lastCall' = DirectCall
    /\ UNCHANGED <<agentClass, explore_env, notExplore>>

\* the loop of AgentBase.explore_one_env: returns [trajectory] and leaves
\* self.trajectory_list alone
ExploreOneEnvLoop(target_step, dones) ==
    LET trajectory == TrajectoryTemp(1, states[1], dones, target_step)
    IN  /\ states' = [states EXCEPT ![1] =
                        StateWithReset(states[1], dones, target_step + 1)]
        /\ returned' = returned \o trajectory
        /\ stepCount' = [stepCount EXCEPT ![1] = @ + target_step]
        /\ resetCalls' = [resetCalls EXCEPT ![1] =
                            @ + DoneCount(dones, target_step)]
        /\ lastCurrent' = [e \in DOMAIN lastCurrent |->
                             IF e = 1 THEN trajectory ELSE <<>>]
        /\ lastDoneSeen' = [e \in DOMAIN lastDoneSeen |->
                              e = 1 /\ \E k \in 1..target_step : dones[k]]
        /\ UNCHANGED trajectory_list

explore_one_env ==
    /\ agentClass \in BaseExploreClasses
    /\ exploreCalls < MaxCalls
    /\ \E target_step \in 0..MaxTargetStep :
         \E dones \in [1..target_step -> BOOLEAN] :
            ExploreOneEnvLoop(target_step, dones)
    /\ exploreCalls' = exploreCalls + 1
    /\ lastCall' = DirectCall
    /\ UNCHANGED <<agentClass, explore_env, notExplore>>

\* AgentBase.explore_vec_env: returns one trajectory per environment
explore_vec_env ==
    LET env_num == Len(trajectory_list) IN
    /\ agentClass \in BaseExploreClasses
    /\ exploreCalls < MaxCalls
    /\ \E target_step \in 0..MaxTargetStep :
         \E dones \in [1..env_num -> [1..target_step -> BOOLEAN]] :
            LET trajectory(e) ==
                    TrajectoryTempVec(e, states[e], dones[e], target_step)
            IN  /\ states' = [e \in 1..env_num |->
                                StateNoReset(states[e], dones[e], target_step + 1)]
                /\ returned' = returned \o
                                  Flatten([e \in 1..env_num |-> trajectory(e)])
                /\ stepCount' = [e \in 1..env_num |-> stepCount[e] + target_step]
                /\ lastCurrent' = [e \in 1..env_num |-> trajectory(e)]
                /\ lastDoneSeen' = [e \in 1..env_num |->
                                      \E k \in 1..target_step : dones[e][k]]
    /\ exploreCalls' = exploreCalls + 1
    /\ lastCall' = DirectCall
    /\ UNCHANGED <<agentClass, trajectory_list, resetCalls, explore_env, notExplore>>

\* agent.explore_env(env, target_step) of an on-policy agent, as a driver
\* calls it after init: the call runs the routine the attribute holds
agent_explore_env ==
    /\ agentClass \in OnPolicyClasses
    /\ exploreCalls < MaxCalls
    /\ \E target_step \in 0..MaxTargetStep :
         IF explore_env[2] = "explore_one_env"
         THEN \E dones \in [1..target_step -> BOOLEAN] :
                 /\ ExploreOneEnvLoop(target_step, dones)
                 /\ lastCall' = [routine |-> explore_env,
                                 open |-> target_step >= 1 /\ ~dones[target_step]]
         ELSE \E dones \in [1..Len(trajectory_list) -> [1..target_step -> BOOLEAN]] :
                 /\ PPOExploreVecEnvLoop(target_step, dones)
                 /\ lastCall' = [routine |-> explore_env,
                                 open |-> target_step >= 1 /\ ~dones[1][target_step]]
    /\ exploreCalls' = exploreCalls + 1
    /\ UNCHANGED <<agentClass, explore_env, notExplore>>

ExploreNext ==
    \/ PPO_explore_env
    \/ DiscretePPO_explore_env
    \/ PPO_explore_vec_env
    \/ explore_one_env
    \/ explore_vec_env
    \/ agent_explore_env

(***************************************************************************)
(* Exact rational arithmetic: a rational is <<numerator, denominator>> in  *)
(* lowest terms with a positive denominator.                               *)
(***************************************************************************)
Abs(x) == IF x < 0 THEN -x ELSE x

RECURSIVE GCD(_, _)
GCD(a, b) == IF b = 0 THEN a ELSE GCD(b, a % b)

Rat(n, d) ==
    LET g == GCD(Abs(n), Abs(d))
        sgn == IF d < 0 THEN -1 ELSE 1
    IN  <<sgn * (n \div g), sgn * (d \div g)>>

RInt(n) == <<n, 1>>

RAdd(x, y) == Rat(x[1] * y[2] + y[1] * x[2], x[2] * y[2])

RSub(x, y) == Rat(x[1] * y[2] - y[1] * x[2], x[2] * y[2])

RMul(x, y) == Rat(x[1] * y[1], x[2] * y[2])

RAbs(x) == <<Abs(x[1]), x[2]>>

RLess(x, y) == x[1] * y[2] < y[1] * x[2]

RECURSIVE RPow(_, _)
RPow(x, n) == IF n = 0 THEN RInt(1) ELSE RMul(x, RPow(x, n - 1))

(***************************************************************************)
(* AgentBase.soft_update(target_net, current_net, tau).                    *)
(***************************************************************************)
NumParams == 2
MaxSoftCalls == 3

ParamValues == {RInt(0), RInt(1), RInt(-2)}

TauValues == {Rat(1, 10), Rat(1, 2), Rat(9, 10)}

\* the blend with the two weights exchanged
SoftUpdateParam_Swapped(tar, cur, t) ==
    RAdd(RMul(tar, t), RMul(cur, RSub(RInt(1), t)))

\* tar.data.copy_(cur.data * tau + tar.data * (1.0 - tau))
SoftUpdateParam(tar, cur, t) ==
    RAdd(RMul(cur, t), RMul(tar, RSub(RInt(1), t)))

\* for tar, cur in zip(target_net.parameters(), current_net.parameters())
SoftUpdateNet(tars, curs, t) ==
    [k \in 1..Len(tars) |->
        IF k <= Len(curs) THEN SoftUpdateParam(tars[k], curs[k], t) ELSE tars[k]]

SoftInit ==
    /\ target_net \in [1..NumParams -> ParamValues]
    /\ current_net \in [1..NumParams -> ParamValues]
    /\ target0 = target_net
    /\ current0 = current_net
    /\ tau \in TauValues
    /\ softCalls = 0

SoftIdle ==
    /\ target_net = <<>>
    /\ current_net = <<>>
    /\ target0 = <<>>
    /\ current0 = <<>>
    /\ tau = RInt(0)
    /\ softCalls = 0

soft_update ==
    /\ softCalls < MaxSoftCalls
    /\ target_net' = SoftUpdateNet(target_net, current_net, tau)
    /\ softCalls' = softCalls + 1
    /\ UNCHANGED <<current_net, target0, current0, tau, notSoft>>

SoftNext == soft_update

(***************************************************************************)
(* The agent classes, AgentBase.init and the init overrides.               *)
(* A network object is named by the role it was built for: "cri", "act",   *)
(* and the deep copies "cri_copy", "act_copy"; "None" is Python's None.    *)
(***************************************************************************)
MaxBufLen == 3
MaxBatch == 2
MaxUpdCalls == 2

DQNFamily == {"AgentDQN", "AgentDuelDQN", "AgentDoubleDQN", "AgentD3QN"}

SACFamily == {"AgentSAC", "AgentModSAC"}

PPOFamily == {"AgentPPO", "AgentDiscretePPO"}

AgentClasses ==
    DQNFamily \cup SACFamily \cup PPOFamily \cup
    {"AgentDDPG", "AgentTD3", "AgentSharedAC", "AgentSharedSAC", "AgentSharedPPO"}

\* the classes whose init is, or calls, AgentBase.init
BaseInitClasses == AgentClasses \ {"AgentSharedSAC", "AgentSharedPPO"}

\* self.ClassAct is set by __init__
HasClassAct(c) ==
    c \in SACFamily \cup PPOFamily \cup
          {"AgentDDPG", "AgentTD3", "AgentSharedSAC", "AgentSharedPPO"}

\* self.if_use_cri_target as __init__ leaves it (None counts as not set)
IfUseCriTarget(c) ==
    c \in DQNFamily \cup SACFamily \cup {"AgentDDPG", "AgentTD3", "AgentSharedSAC"}

\* self.if_use_act_target as __init__ leaves it
IfUseActTarget(c) == c \in {"AgentDDPG", "AgentTD3", "AgentModSAC"}

NetObjects == {"cri", "act", "cri_copy", "act_copy"}

CriAfterInit(c) == "cri"

ActAfterInit(c) ==
    IF c \in BaseInitClasses
    THEN IF HasClassAct(c) THEN "act" ELSE CriAfterInit(c)
    ELSE CriAfterInit(c)

\* every target is a deep copy, whatever the flag says
CriTargetAfterInit_AlwaysCopy(c) ==
    IF c \in BaseInitClasses THEN "cri_copy"
    ELSE IF c = "AgentSharedSAC" THEN "cri_copy" ELSE "None"

CriTargetAfterInit(c) ==
    IF c \in BaseInitClasses
    THEN IF IfUseCriTarget(c) THEN "cri_copy" ELSE CriAfterInit(c)
    ELSE IF c = "AgentSharedSAC" THEN "cri_copy" ELSE "None"

ActTargetAfterInit(c) ==
    IF c \in BaseInitClasses
    THEN IF IfUseActTarget(c) THEN "act_copy" ELSE ActAfterInit(c)
    ELSE IF c = "AgentSharedSAC" THEN "cri_copy" ELSE "None"

\* the networks whose parameters an optimizer holds; act_optim of a class
\* without ClassAct is the critic network itself, not an optimizer
OptimParams(c, optim) ==
    CASE optim = "cri_optim" -> {CriAfterInit(c)}
      [] optim = "act_optim" ->
            IF c \in BaseInitClasses /\ HasClassAct(c) THEN {ActAfterInit(c)} ELSE {}
      [] OTHER -> {}

\* self.get_obj_critic = None, as __init__ leaves it
UnboundSlot == <<"None", "None">>

\* the attributes AgentBase.__init__ sets to None on the instance, besides
\* the networks and optimizers
NulledByInit ==
    {"get_obj_critic", "get_obj_critic_per", "get_reward_sum",
     "get_reward_sum_raw", "get_reward_sum_gae", "explore_env"}

\* the class whose definition of a method an instance of class c inherits
MethodOwner(c, name) ==
    CASE name \in {"get_obj_critic_raw", "get_obj_critic_per"} ->
            (CASE c \in DQNFamily -> "AgentDQN"
               [] c \in SACFamily \cup {"AgentSharedSAC"} -> "AgentSAC"
               [] c \in {"AgentDDPG", "AgentTD3"} -> c
               [] OTHER -> "None")
      [] name \in {"get_reward_sum_raw", "get_reward_sum_gae"} ->
            (IF c \in PPOFamily \cup {"AgentSharedPPO"} THEN "AgentPPO" ELSE "None")
      [] OTHER -> "None"

\* the value of self.<name> once __init__ has run: an attribute of the
\* instance hides the method of the same name
SelfAttr(c, name) ==
    IF name \in NulledByInit \/ MethodOwner(c, name) = "None"
    THEN UnboundSlot
    ELSE <<MethodOwner(c, name), name>>

\* self.get_obj_critic after init; the classes with their own init without
\* an assignment to it keep the None of __init__
GetObjCriticAfterInit(c, per) ==
    IF c \in DQNFamily \cup SACFamily \cup {"AgentDDPG", "AgentTD3"}
    THEN IF per THEN SelfAttr(c, "get_obj_critic_per")
                ELSE SelfAttr(c, "get_obj_critic_raw")
    ELSE UnboundSlot

\* self.get_reward_sum after init: AgentPPO.init leaves the None of
\* __init__, AgentSharedPPO.init assigns it
GetRewardSumAfterInit(c, gae) ==
    IF c = "AgentSharedPPO"
    THEN IF gae THEN SelfAttr(c, "get_reward_sum_gae")[2]
                ELSE SelfAttr(c, "get_reward_sum_raw")[2]
    ELSE "None"

\* self.update_freq: __init__ of AgentTD3 sets 2 and of AgentSharedAC 2 ** 7;
\* it is a plain attribute, and a caller may set a shorter period on an
\* AgentSharedAC; 0 stands for a class without the attribute
UpdateFreqTD3 == 2
UpdateFreqSharedAC == 128

UpdateFreqValues(c) ==
    CASE c = "AgentTD3" -> {UpdateFreqTD3}
      [] c = "AgentSharedAC" -> {2, UpdateFreqSharedAC}
      [] OTHER -> {0}

UpdInit ==
    /\ uClass \in AgentClasses
    /\ if_use_per \in BOOLEAN
    /\ cri = CriAfterInit(uClass)
    /\ act = ActAfterInit(uClass)
    /\ cri_target = CriTargetAfterInit(uClass)
    /\ act_target = ActTargetAfterInit(uClass)
    /\ get_obj_critic = GetObjCriticAfterInit(uClass, if_use_per)
    /\ get_reward_sum = GetRewardSumAfterInit(uClass, if_use_per)
    /\ update_freq \in UpdateFreqValues(uClass)
    /\ writers = [o \in NetObjects |-> {}]
    /\ callInput = <<0, 1, <<1, 1>>>>
    /\ log = <<>>
    /\ outcome = "none"
    /\ updCalls = 0

UpdIdle ==
    /\ uClass = "AgentDQN"
    /\ if_use_per = FALSE
    /\ cri = "None"
    /\ act = "None"
    /\ cri_target = "None"
    /\ act_target = "None"
    /\ get_obj_critic = UnboundSlot
    /\ get_reward_sum = "None"
    /\ update_freq = 0
    /\ writers = <<>>
    /\ callInput = <<>>
    /\ log = <<>>
    /\ outcome = "none"
    /\ updCalls = 0

(***************************************************************************)
(* update_net of every class.  One call is one action; log is the list of  *)
(* the operations the call performed on its collaborators, in order, each  *)
(* [it: the loop index, op, arg].                                          *)
(***************************************************************************)
RepeatTimesValues == {Rat(1, 2), RInt(1), RInt(2)}

\* exp(-obj_c ** 2) for the running critic loss obj_c, which the sampled
\* batches decide
ReliableLambdas == {Rat(1, 10), RInt(1)}

Ev(i, op, arg) == [it |-> i, op |-> op, arg |-> arg]

\* int(buffer.now_len / batch_size * repeat_times), in exact arithmetic
IterCount(now_len, batch_size, repeat_times) ==
    (now_len * repeat_times[1]) \div (batch_size * repeat_times[2])

\* the calls on the buffer of one call of a critic objective, named by
\* <<the class that defines it, its name>>
GetObjCriticOps(slot, i) ==
    IF slot[2] = "get_obj_critic_raw" \/ slot[1] = "AgentDQN"
    THEN <<Ev(i, "sample_batch", slot)>>
    ELSE <<Ev(i, "sample_batch", slot), Ev(i, "td_error_update", slot)>>

\* for i in range(0, n): the operations of the iterations, in order, given
\* as the list of the operations of each iteration
LoopOps(iterations) == Flatten(iterations)

DQNIter(i) ==
    GetObjCriticOps(get_obj_critic, i) \o
    <<Ev(i, "optim_update", "cri_optim"), Ev(i, "soft_update", cri_target)>>

DDPGIter(i) ==
    GetObjCriticOps(get_obj_critic, i) \o
    <<Ev(i, "optim_update", "cri_optim"), Ev(i, "soft_update", cri_target),
      Ev(i, "optim_update", "act_optim"), Ev(i, "soft_update", act_target)>>

TD3Iter(i) ==
    GetObjCriticOps(get_obj_critic, i) \o
    <<Ev(i, "optim_update", "cri_optim"), Ev(i, "optim_update", "act_optim")>> \o
    (IF i % update_freq = 0
     THEN <<Ev(i, "soft_update", cri_target), Ev(i, "soft_update", act_target)>>
     ELSE <<>>)

SACIter(i) ==
    GetObjCriticOps(get_obj_critic, i) \o
    <<Ev(i, "optim_update", "cri_optim"), Ev(i, "soft_update", cri_target),
      Ev(i, "optim_update", "alpha_optim"), Ev(i, "clamp", <<-20, 2>>),
      Ev(i, "optim_update", "act_optim"), Ev(i, "soft_update", act_target)>>

\* the test made with update_a already incremented
IfUpdateA_AfterIncrement(update_a, update_c, lam) ==
    RLess(Rat(update_a + 1, update_c), Rat(lam[2], 2 * lam[2] - lam[1]))

\* the test against 1 / (2 + reliable_lambda)
IfUpdateA_PlusLambda(update_a, update_c, lam) ==
    RLess(Rat(update_a, update_c), Rat(lam[2], 2 * lam[2] + lam[1]))

\* update_a / update_c < 1 / (2 - reliable_lambda)
IfUpdateA(update_a, update_c, lam) ==
    RLess(Rat(update_a, update_c), Rat(lam[2], 2 * lam[2] - lam[1]))

\* update_a when iteration update_c starts
RECURSIVE UpdateABefore(_, _)
UpdateABefore(update_c, lams) ==
    IF update_c = 1 THEN 0
    ELSE LET prev == UpdateABefore(update_c - 1, lams)
         IN  IF IfUpdateA(prev, update_c - 1, lams[update_c - 1])
             THEN prev + 1 ELSE prev

ModSACIter(update_c, lams) ==
    LET update_a == UpdateABefore(update_c, lams)
        if_update_a == IfUpdateA(update_a, update_c, lams[update_c])
    IN  GetObjCriticOps(get_obj_critic, update_c) \o
        <<Ev(update_c, "optim_update", "cri_optim"),
          Ev(update_c, "soft_update", cri_target),
          Ev(update_c, "optim_update", "alpha_optim"),
          Ev(update_c, "clamp", <<-16, 2>>),
          Ev(update_c, "if_update_a", <<update_a, lams[update_c], if_update_a>>)>> \o
        (IF if_update_a
         THEN <<Ev(update_c, "optim_update", "act_optim"),
                Ev(update_c, "soft_update", act_target)>>
         ELSE <<>>)

\* the values of lamb drawn for the n iterations of a call of
\* AgentSharedAC: lamb follows the running average avg_loss_c, and the
\* sequences drawn are those in which it changes at most once
LambSequences(n) ==
    {[k \in 1..n |-> IF k <= j THEN a ELSE b] :
        j \in 0..n, a \in ReliableLambdas, b \in ReliableLambdas}

\* the critic and the actor stepped one after the other
SharedACIter_TwoSteps(i, lams) ==
    <<Ev(i, "sample_batch", <<"AgentSharedAC", "update_net">>),
      Ev(i, "lamb", lams[i + 1]),
      Ev(i, "optim_update", "cri_optim"),
      Ev(i, "optim_update", "cri_optim")>>

\* lams[i + 1] is lamb of iteration i
SharedACIter(i, lams) ==
    <<Ev(i, "sample_batch", <<"AgentSharedAC", "update_net">>),
      Ev(i, "lamb", lams[i + 1]),
      Ev(i, "optim_update", "cri_optim")>> \o
    (IF i % update_freq = update_freq /\ RLess(Rat(1, 10), lams[i + 1])
     THEN <<Ev(i, "hard_copy", cri_target)>>
     ELSE <<>>)

SharedPPOIter(i) == <<Ev(i, "optim_update", "cri_optim")>>

\* the loop body of AgentSharedSAC.update_net with update_c = i
SharedSACIter(i, lams) ==
    GetObjCriticOps(get_obj_critic, i) \o
    <<Ev(i, "clamp", <<-20, 2>>),
      Ev(i, "if_update_a",
         <<UpdateABefore(i, lams), lams[i],
           IfUpdateA(UpdateABefore(i, lams), i, lams[i])>>),
      Ev(i, "optim_update", "cri_optim"),
      Ev(i, "soft_update", act_target)>>

\* the kinds of write every network object has received after ops
WritersAfter(w, ops) ==
    [o \in NetObjects |->
        w[o]
        \cup {"optim" : k \in {j \in 1..Len(ops) :
                 /\ ops[j].op = "optim_update"
                 /\ o \in OptimParams(uClass, ops[j].arg)}}
        \cup {"soft" : k \in {j \in 1..Len(ops) :
                 ops[j].op = "soft_update" /\ ops[j].arg = o}}
        \cup {"hard" : k \in {j \in 1..Len(ops) :
                 ops[j].op = "hard_copy" /\ ops[j].arg = o}}]

\* the end of a call: its operations, and whether it returned or raised
UpdateNetEnd(ops, out, now_len, batch_size, repeat_times) ==
    /\ updCalls < MaxUpdCalls
    /\ log' = ops
    /\ outcome' = out
    /\ writers' = WritersAfter(writers, ops)
    /\ callInput' = <<now_len, batch_size, repeat_times>>
    /\ updCalls' = updCalls + 1
    /\ UNCHANGED <<uClass, if_use_per, cri, act, cri_target, act_target,
                   get_obj_critic, get_reward_sum, update_freq, notUpd>>

\* the diagnostics are None.item() when the loop body never ran; a call
\* whose strategy slot is None raises at the slot's first call, or at the
\* diagnostics when the loop body never ran
ReturnOrRaise(n) == IF n <= 0 THEN "raised" ELSE "returned"

AgentDQN_update_net ==
    /\ uClass \in DQNFamily
    /\ \E now_len \in 0..MaxBufLen, batch_size \in 1..MaxBatch,
          repeat_times \in RepeatTimesValues :
         LET n == IterCount(now_len, batch_size, repeat_times)
         IN  IF get_obj_critic = UnboundSlot
             THEN UpdateNetEnd(<<>>, "raised", now_len, batch_size, repeat_times)
             ELSE UpdateNetEnd(LoopOps([k \in 1..n |-> DQNIter(k - 1)]), ReturnOrRaise(n),
                               now_len, batch_size, repeat_times)

AgentDDPG_update_net ==
    /\ uClass = "AgentDDPG"
    /\ \E now_len \in 0..MaxBufLen, batch_size \in 1..MaxBatch,
          repeat_times \in RepeatTimesValues :
         LET n == IterCount(now_len, batch_size, repeat_times)
         IN  IF get_obj_critic = UnboundSlot
             THEN UpdateNetEnd(<<>>, "raised", now_len, batch_size, repeat_times)
             ELSE UpdateNetEnd(LoopOps([k \in 1..n |-> DDPGIter(k - 1)]), ReturnOrRaise(n),
                               now_len, batch_size, repeat_times)

AgentTD3_update_net ==
    /\ uClass = "AgentTD3"
    /\ \E now_len \in 0..MaxBufLen, batch_size \in 1..MaxBatch,
          repeat_times \in RepeatTimesValues :
         LET n == IterCount(now_len, batch_size, repeat_times)
         IN  IF get_obj_critic = UnboundSlot
             THEN UpdateNetEnd(<<>>, "raised", now_len, batch_size, repeat_times)
             ELSE UpdateNetEnd(LoopOps([k \in 1..n |-> TD3Iter(k - 1)]), ReturnOrRaise(n),
                               now_len, batch_size, repeat_times)

AgentSAC_update_net ==
    /\ uClass = "AgentSAC"
    /\ \E now_len \in 0..MaxBufLen, batch_size \in 1..MaxBatch,
          repeat_times \in RepeatTimesValues :
         LET n == IterCount(now_len, batch_size, repeat_times)
         IN  IF get_obj_critic = UnboundSlot
             THEN UpdateNetEnd(<<>>, "raised", now_len, batch_size, repeat_times)
             ELSE UpdateNetEnd(LoopOps([k \in 1..n |-> SACIter(k - 1)]), ReturnOrRaise(n),
                               now_len, batch_size, repeat_times)

AgentModSAC_update_net ==
    /\ uClass = "AgentModSAC"
    /\ \E now_len \in 0..MaxBufLen, batch_size \in 1..MaxBatch,
          repeat_times \in RepeatTimesValues :
         LET n == IterCount(now_len, batch_size, repeat_times)
         IN  IF get_obj_critic = UnboundSlot
             THEN UpdateNetEnd(<<>>, "raised", now_len, batch_size, repeat_times)
             ELSE \E lams \in [1..(n - 1) -> ReliableLambdas] :
                    LET Iter(i) == ModSACIter(i, lams)
                    IN  UpdateNetEnd(LoopOps([k \in 1..(n - 1) |-> Iter(k)]),
                                     ReturnOrRaise(n - 1),
                                     now_len, batch_size, repeat_times)

\* self.get_reward_sum is None when the call reaches it
AgentPPO_update_net ==
    /\ uClass \in PPOFamily
    /\ \E now_len \in 0..MaxBufLen, batch_size \in 1..MaxBatch,
          repeat_times \in RepeatTimesValues :
         LET n == IterCount(now_len, batch_size, repeat_times)
             Iter(i) == <<Ev(i, "optim_update", "act_optim"),
                          Ev(i, "optim_update", "cri_optim")>> \o
                        (IF cri_target # cri
                         THEN <<Ev(i, "soft_update", cri_target)>> ELSE <<>>)
         IN  IF get_reward_sum = "None"
             THEN UpdateNetEnd(<<>>, "raised", now_len, batch_size, repeat_times)
             ELSE UpdateNetEnd(LoopOps([k \in 1..n |-> Iter(k - 1)]), ReturnOrRaise(n),
                               now_len, batch_size, repeat_times)

AgentSharedAC_update_net ==
    /\ uClass = "AgentSharedAC"
    /\ \E now_len \in 0..MaxBufLen, batch_size \in 1..MaxBatch,
          repeat_times \in RepeatTimesValues :
         LET n == IterCount(now_len, batch_size, repeat_times)
         IN  \E lams \in LambSequences(n) :
               LET Iter(i) == SharedACIter(i, lams)
               IN  UpdateNetEnd(LoopOps([k \in 1..n |-> Iter(k - 1)]), ReturnOrRaise(n),
                                now_len, batch_size, repeat_times)

\* self.get_obj_critic is None in the first iteration; without an iteration
\* the local alpha is unbound at the return
AgentSharedSAC_update_net ==
    /\ uClass = "AgentSharedSAC"
    /\ \E now_len \in 0..MaxBufLen, batch_size \in 1..MaxBatch,
          repeat_times \in RepeatTimesValues :
         LET n == IterCount(now_len, batch_size, repeat_times)
         IN  IF get_obj_critic = UnboundSlot
             THEN UpdateNetEnd(<<>>, "raised", now_len, batch_size, repeat_times)
             ELSE \E lams \in [1..(n - 1) -> ReliableLambdas] :
                    LET Iter(i) == SharedSACIter(i, lams)
                    IN  UpdateNetEnd(LoopOps([k \in 1..(n - 1) |-> Iter(k)]), ReturnOrRaise(n - 1),
                                     now_len, batch_size, repeat_times)

AgentSharedPPO_update_net ==
    /\ uClass = "AgentSharedPPO"
    /\ \E now_len \in 0..MaxBufLen, batch_size \in 1..MaxBatch,
          repeat_times \in RepeatTimesValues :
         LET n == IterCount(now_len, batch_size, repeat_times)
         IN  IF get_reward_sum = "None"
             THEN UpdateNetEnd(<<>>, "raised", now_len, batch_size, repeat_times)
             ELSE UpdateNetEnd(LoopOps([k \in 1..n |-> SharedPPOIter(k - 1)]),
                               ReturnOrRaise(n),
                               now_len, batch_size, repeat_times)

UpdNext ==
    \/ AgentDQN_update_net
    \/ AgentDDPG_update_net
    \/ AgentTD3_update_net
    \/ AgentSAC_update_net
    \/ AgentModSAC_update_net
    \/ AgentPPO_update_net
    \/ AgentSharedAC_update_net
    \/ AgentSharedSAC_update_net
    \/ AgentSharedPPO_update_net

(***************************************************************************)
(* AgentPPO.get_reward_sum_raw and AgentPPO.get_reward_sum_gae, in exact   *)
(* rational arithmetic.  Index k of the model is index k - 1 of the code.  *)
(***************************************************************************)
MaxTrajLen == 3

RewardValues == {RInt(-1), RInt(1)}

\* mask = 0.0 if done else gamma
MaskValues == {RInt(0), RInt(1), Rat(1, 2)}

ValueValues == {RInt(0), RInt(2)}

\* self.lambda_gae_adv = 0.98
LambdaGaeAdv == Rat(49, 50)

\* np.empty(buf_len)
Empty(n) == [k \in 1..n |-> "empty"]

\* the reward sum without the mask
RSumStep_NoMask(reward_i, mask_i, pre_r_sum) == RAdd(reward_i, pre_r_sum)

\* ary_reward[i] + ary_mask[i] * pre_r_sum
RSumStep(reward_i, mask_i, pre_r_sum) ==
    RAdd(reward_i, RMul(mask_i, pre_r_sum))

\* the value subtracted outside the mask
GaeAdvantageStep_ValueOutside(reward_i, mask_i, value_i, pre_advantage) ==
    RSub(RAdd(reward_i, RMul(mask_i, pre_advantage)), value_i)

\* ary_reward[i] + ary_mask[i] * (pre_advantage - ary_value[i])
GaeAdvantageStep(reward_i, mask_i, value_i, pre_advantage) ==
    RAdd(reward_i, RMul(mask_i, RSub(pre_advantage, value_i)))

\* the loop of get_reward_sum_raw from index i down, pre_r_sum carried
RECURSIVE RawLoop(_, _, _, _, _)
RawLoop(i, pre_r_sum, r_sum, reward, mask) ==
    IF i < 1 THEN r_sum
    ELSE LET v == RSumStep(reward[i], mask[i], pre_r_sum)
         IN  RawLoop(i - 1, v, [r_sum EXCEPT ![i] = v], reward, mask)

\* get_reward_sum_raw: <<ary_r_sum, ary_advantage>>
GetRewardSumRaw(n, reward, mask, value) ==
    LET r_sum == RawLoop(n, RInt(0), Empty(n), reward, mask)
    IN  <<r_sum, [k \in 1..n |-> RSub(r_sum[k], RMul(mask[k], value[k]))]>>

\* the loop of get_reward_sum_gae from index i down: <<ary_r_sum, ary_advantage>>
RECURSIVE GaeLoop(_, _, _, _, _, _, _, _)
GaeLoop(i, pre_r_sum, pre_advantage, r_sum, advantage, reward, mask, value) ==
    IF i < 1 THEN <<r_sum, advantage>>
    ELSE LET v == RSumStep(reward[i], mask[i], pre_r_sum)
             a == GaeAdvantageStep(reward[i], mask[i], value[i], pre_advantage)
         IN  GaeLoop(i - 1, v, RAdd(value[i], RMul(a, LambdaGaeAdv)),
                     [r_sum EXCEPT ![i] = v], [advantage EXCEPT ![i] = a],
                     reward, mask, value)

GetRewardSumGae(n, reward, mask, value) ==
    GaeLoop(n, RInt(0), RInt(0), Empty(n), Empty(n), reward, mask, value)

RsInit ==
    /\ buf_len \in 1..MaxTrajLen
    /\ ary_reward \in [1..buf_len -> RewardValues]
    /\ ary_mask \in [1..buf_len -> MaskValues]
    /\ ary_value \in [1..buf_len -> ValueValues]
    /\ ary_r_sum = <<>>
    /\ ary_advantage = <<>>
    /\ estimator = "none"

RsIdle ==
    /\ buf_len = 0
    /\ ary_reward = <<>>
    /\ ary_mask = <<>>
    /\ ary_value = <<>>
    /\ ary_r_sum = <<>>
    /\ ary_advantage = <<>>
    /\ estimator = "none"

get_reward_sum_raw ==
    /\ estimator = "none"
    /\ LET res == GetRewardSumRaw(buf_len, ary_reward, ary_mask, ary_value)
       IN  /\ ary_r_sum' = res[1]
           /\ ary_advantage' = res[2]
    /\ estimator' = "raw"
    /\ UNCHANGED <<buf_len, ary_reward, ary_mask, ary_value, notRs>>

get_reward_sum_gae ==
    /\ estimator = "none"
    /\ LET res == GetRewardSumGae(buf_len, ary_reward, ary_mask, ary_value)
       IN  /\ ary_r_sum' = res[1]
           /\ ary_advantage' = res[2]
    /\ estimator' = "gae"
    /\ UNCHANGED <<buf_len, ary_reward, ary_mask, ary_value, notRs>>

RsNext ==
    \/ get_reward_sum_raw
    \/ get_reward_sum_gae

(***************************************************************************)
(* AgentDQN.select_action (also AgentDuelDQN's) and                        *)
(* AgentDoubleDQN.select_action (also AgentD3QN's).                        *)
(***************************************************************************)
MaxActionDim == 3

\* 0.25 is the rate __init__ sets; a caller may set another
ExploreRates == {RInt(0), Rat(1, 4)}

\* values of rd.rand(), which draws from [0, 1)
RandDraws == {RInt(0), Rat(1, 8), Rat(1, 4), Rat(3, 4)}

QOutValues == {-1, 0, 2}

\* the random branch is also taken when the draw equals the rate
ExploreBranch_Inclusive(u, rate) == ~RLess(rate, u)

\* rd.rand() < self.explore_rate
ExploreBranch(u, rate) == RLess(u, rate)

\* action.argmax(dim=0): the first index (from 0) of a maximal value
ArgMax(q) ==
    (CHOOSE k \in 1..Len(q) :
        /\ \A j \in 1..Len(q) : q[j] <= q[k]
        /\ \A j \in 1..(k - 1) : q[j] < q[k]) - 1

SaInit ==
    /\ saClass \in DQNFamily
    /\ explore_rate \in ExploreRates
    /\ action_dim \in 2..MaxActionDim
    /\ q_out = <<>>
    /\ rand_draw = RInt(0)
    /\ a_int = 0
    /\ branch = "none"

SaIdle ==
    /\ saClass = "AgentDQN"
    /\ explore_rate = RInt(0)
    /\ action_dim = 0
    /\ q_out = <<>>
    /\ rand_draw = RInt(0)
    /\ a_int = 0
    /\ branch = "none"

\* the random branch draws rd.randint(self.action_dim)
AgentDQN_select_action ==
    /\ saClass \in {"AgentDQN", "AgentDuelDQN"}
    /\ \E q \in [1..action_dim -> QOutValues], u \in RandDraws,
          r \in 0..(action_dim - 1) :
         /\ q_out' = q
         /\ rand_draw' = u
         /\ IF ExploreBranch(u, explore_rate)
            THEN a_int' = r /\ branch' = "random"
            ELSE a_int' = ArgMax(q) /\ branch' = "greedy"
    /\ UNCHANGED <<saClass, explore_rate, action_dim, notSa>>

\* the random branch draws rd.choice(self.action_dim, p=softmax(actions))
AgentDoubleDQN_select_action ==
    /\ saClass \in {"AgentDoubleDQN", "AgentD3QN"}
    /\ \E q \in [1..action_dim -> QOutValues], u \in RandDraws,
          r \in 0..(action_dim - 1) :
         /\ q_out' = q
         /\ rand_draw' = u
         /\ IF ExploreBranch(u, explore_rate)
            THEN a_int' = r /\ branch' = "softmax"
            ELSE a_int' = ArgMax(q) /\ branch' = "greedy"
    /\ UNCHANGED <<saClass, explore_rate, action_dim, notSa>>

SaNext ==
    \/ AgentDQN_select_action
    \/ AgentDoubleDQN_select_action

(***************************************************************************)
(* get_obj_critic_raw and get_obj_critic_per of AgentDQN, AgentDDPG,       *)
(* AgentTD3 and AgentSAC, in exact rational arithmetic.                    *)
(***************************************************************************)
MaxSample == 2

\* an objective that has not been computed
NotComputed == <<>>

PerClasses == {"AgentDQN", "AgentDDPG", "AgentTD3", "AgentSAC"}

\* the classes whose critic is a CriticTwin
TwinClasses == {"AgentTD3", "AgentSAC"}

QValues == {Rat(1, 2), RInt(3)}

LabelValues == {RInt(0), RInt(1)}

WeightValues == {RInt(1), Rat(1, 2)}

RECURSIVE RSum(_)
RSum(xs) == IF xs = <<>> THEN RInt(0) ELSE RAdd(Head(xs), RSum(Tail(xs)))

\* tensor.mean()
Mean(xs) == RMul(RSum(xs), Rat(1, Len(xs)))

\* torch.nn.SmoothL1Loss on one element: 0.5 * d^2 if |d| < 1 else |d| - 0.5
SmoothL1(x, y) ==
    LET d == RSub(x, y)
    IN  IF RLess(RAbs(d), RInt(1))
        THEN RMul(Rat(1, 2), RMul(d, d))
        ELSE RSub(RAbs(d), Rat(1, 2))

\* the reduction of self.criterion that init chooses
ReductionAfterInit(per) == IF per THEN "none" ELSE "mean"

\* self.criterion(q_value, q_label)
Criterion(reduction, q_value, label) ==
    LET losses == [k \in 1..Len(q_value) |-> SmoothL1(q_value[k], label[k])]
    IN  IF reduction = "mean" THEN Mean(losses) ELSE losses

\* the weighted losses summed instead of averaged
WeightedMean_Sum(losses, weights) ==
    RSum([k \in 1..Len(losses) |-> RMul(losses[k], weights[k])])

\* (losses * is_weights).mean()
WeightedMean(losses, weights) ==
    Mean([k \in 1..Len(losses) |-> RMul(losses[k], weights[k])])

\* obj_critic of get_obj_critic_raw
ObjCriticRaw(c, v1, v2, label) ==
    LET reduction == ReductionAfterInit(FALSE)
    IN  IF c \in TwinClasses
        THEN RAdd(Criterion(reduction, v1, label), Criterion(reduction, v2, label))
        ELSE Criterion(reduction, v1, label)

\* obj_critic of get_obj_critic_per
ObjCriticPer(c, v1, v2, label, weights) ==
    LET reduction == ReductionAfterInit(TRUE)
        l1 == Criterion(reduction, v1, label)
        l2 == Criterion(reduction, v2, label)
    IN  IF c \in TwinClasses
        THEN WeightedMean([k \in 1..Len(l1) |-> RAdd(l1[k], l2[k])], weights)
        ELSE WeightedMean(l1, weights)

ObjInit ==
    /\ objClass \in PerClasses
    /\ \E batch_size \in 1..MaxSample :
         /\ q1 \in [1..batch_size -> QValues]
         /\ q2 \in [1..batch_size -> QValues]
         /\ q_label \in [1..batch_size -> LabelValues]
         /\ is_weights \in [1..batch_size -> WeightValues]
    /\ objClass \notin TwinClasses => q2 = q1
    /\ obj_raw = NotComputed
    /\ obj_per = NotComputed
    /\ per_ops = <<>>

ObjIdle ==
    /\ objClass = "AgentDQN"
    /\ q1 = <<>>
    /\ q2 = <<>>
    /\ q_label = <<>>
    /\ is_weights = <<>>
    /\ obj_raw = NotComputed
    /\ obj_per = NotComputed
    /\ per_ops = <<>>

get_obj_critic_raw ==
    /\ obj_raw = NotComputed
    /\ obj_raw' = ObjCriticRaw(objClass, q1, q2, q_label)
    /\ UNCHANGED <<objClass, q1, q2, q_label, is_weights, obj_per, per_ops, notObj>>

get_obj_critic_per ==
    /\ obj_per = NotComputed
    /\ obj_per' = ObjCriticPer(objClass, q1, q2, q_label, is_weights)
    /\ per_ops' = GetObjCriticOps(<<objClass, "get_obj_critic_per">>, 0)
    /\ UNCHANGED <<objClass, q1, q2, q_label, is_weights, obj_raw, notObj>>

ObjNext ==
    \/ get_obj_critic_raw
    \/ get_obj_critic_per

(***************************************************************************)
(* The log-temperature in update_net of AgentSAC, AgentModSAC and          *)
(* AgentSharedSAC.  alpha_log is a one-element tensor, modelled in whole   *)
(* units; an optimizer step on it changes it by an amount the gradients    *)
(* decide.                                                                 *)
(***************************************************************************)
MaxAlphaIters == 2
MaxAlphaStep == 12
MaxAlphaCalls == 1

TemperatureClasses == {"AgentSAC", "AgentModSAC", "AgentSharedSAC"}

\* -np.log(action_dim) * np.e for action_dim 1, 2, 3, in whole units
AlphaLogAfterInit == {0, -2, -3}

\* the change one optimizer step makes to alpha_log
AlphaSteps == {-MaxAlphaStep, -1, 0, 1, MaxAlphaStep}

\* tensor.clamp(lo, hi)
Clamp(x, lo, hi) == IF x < lo THEN lo ELSE IF x > hi THEN hi ELSE x

\* AgentSAC: optim_update(self.alpha_optim, obj_alpha), then the clamp; the
\* actor's step that follows does not hold alpha_log
SACAlphaIter(a, step) == Clamp(a + step, -20, 2)

\* AgentModSAC: the same with clamp(-16, 2)
ModSACAlphaIter(a, step) == Clamp(a + step, -16, 2)

\* AgentSharedSAC: the clamp, then optim_update(self.cri_optim, obj_united),
\* whose parameter groups hold alpha_log
SharedSACAlphaIter(a, step) == Clamp(a, -20, 2) + step

AlphaIter(c, a, step) ==
    CASE c = "AgentSAC" -> SACAlphaIter(a, step)
      [] c = "AgentModSAC" -> ModSACAlphaIter(a, step)
      [] c = "AgentSharedSAC" -> SharedSACAlphaIter(a, step)

\* alpha_log at the end of each of the iterations, from a at the start
RECURSIVE AlphaTrace(_, _, _)
AlphaTrace(c, a, steps) ==
    IF steps = <<>> THEN <<>>
    ELSE LET a1 == AlphaIter(c, a, Head(steps))
         IN  <<a1>> \o AlphaTrace(c, a1, Tail(steps))

AlphaInit ==
    /\ alClass \in TemperatureClasses
    /\ \E per \in BOOLEAN : al_get_obj_critic = GetObjCriticAfterInit(alClass, per)
    /\ alpha_log \in AlphaLogAfterInit
    /\ alpha_trace = <<>>
    /\ alphaCalls = 0

AlphaIdle ==
    /\ alClass = "AgentSAC"
    /\ al_get_obj_critic = UnboundSlot
    /\ alpha_log = 0
    /\ alpha_trace = <<>>
    /\ alphaCalls = 0

\* no method of AgentSharedSAC assigns self.get_obj_critic, which
\* update_net calls; a caller has to assign the objective the class
\* inherits before update_net can run an iteration
caller_assigns_get_obj_critic ==
    /\ alClass = "AgentSharedSAC"
    /\ al_get_obj_critic = UnboundSlot
    /\ al_get_obj_critic' = SelfAttr(alClass, "get_obj_critic_raw")
    /\ UNCHANGED <<alClass, alpha_log, alpha_trace, alphaCalls, notAlpha>>

\* one update_net call that runs n iterations; with self.get_obj_critic
\* None the call raises before it touches alpha_log
AlphaUpdateNet ==
    /\ alphaCalls < MaxAlphaCalls
    /\ alphaCalls' = alphaCalls + 1
    /\ IF al_get_obj_critic = UnboundSlot
       THEN /\ alpha_trace' = <<>>
            /\ UNCHANGED alpha_log
       ELSE \E n \in 0..MaxAlphaIters :
              \E steps \in [1..n -> AlphaSteps] :
                 /\ alpha_trace' = AlphaTrace(alClass, alpha_log, steps)
                 /\ alpha_log' = IF n = 0 THEN alpha_log
                                 ELSE AlphaTrace(alClass, alpha_log, steps)[n]
    /\ UNCHANGED <<alClass, al_get_obj_critic, notAlpha>>

AgentSAC_update_net_alpha_log ==
    /\ alClass = "AgentSAC"
    /\ AlphaUpdateNet

AgentModSAC_update_net_alpha_log ==
    /\ alClass = "AgentModSAC"
    /\ AlphaUpdateNet

AgentSharedSAC_update_net_alpha_log ==
    /\ alClass = "AgentSharedSAC"
    /\ AlphaUpdateNet

AlphaNext ==
    \/ caller_assigns_get_obj_critic
    \/ AgentSAC_update_net_alpha_log
    \/ AgentModSAC_update_net_alpha_log
    \/ AgentSharedSAC_update_net_alpha_log

(***************************************************************************)
(* The critic objective that update_net of the discrete value-based agents *)
(* executes, self.get_obj_critic(buffer, batch_size), on one sampled        *)
(* transition.  Values are in whole units; the mask is 0 or gamma = 1.     *)
(***************************************************************************)
MaxBootActions == 2

NextQValues == {0, 1, 2}

\* tensor.max(dim=1)[0] for one row
SeqMax(xs) == CHOOSE x \in {xs[a] : a \in DOMAIN xs} : \A a \in DOMAIN xs : xs[a] <= x

\* AgentDQN.get_obj_critic_raw: self.cri_target(next_s).max(dim=1), where
\* the forward pass of a twin network is its first critic
NextQ_DQN(tq1, tq2) == SeqMax(tq1)

\* AgentDoubleDQN.get_obj_critic:
\* torch.min(*self.cri_target.get_q1_q2(next_s)).max(dim=1)
NextQ_DoubleDQN(tq1, tq2) == SeqMax([a \in DOMAIN tq1 |-> Min(tq1[a], tq2[a])])

\* q_label = reward + mask * next_q of the function fn
QLabel(fn, reward, mask, tq1, tq2) ==
    reward + mask * (IF fn = <<"AgentDoubleDQN", "get_obj_critic">>
                     THEN NextQ_DoubleDQN(tq1, tq2)
                     ELSE NextQ_DQN(tq1, tq2))

\* the classes whose critic is a QNetTwin
TwinQClasses == {"AgentDoubleDQN", "AgentD3QN"}

BootInit ==
    /\ bClass \in DQNFamily
    /\ b_if_use_per \in BOOLEAN
    /\ next_q1 \in [1..MaxBootActions -> NextQValues]
    /\ next_q2 \in [1..MaxBootActions -> NextQValues]
    /\ bClass \notin TwinQClasses => next_q2 = next_q1
    /\ b_reward \in {0, 1}
    /\ b_mask \in {0, 1}
    /\ b_executed = UnboundSlot
    /\ b_q_label = 0
    /\ b_outcome = "none"

BootIdle ==
    /\ bClass = "AgentDQN"
    /\ b_if_use_per = FALSE
    /\ next_q1 = <<>>
    /\ next_q2 = <<>>
    /\ b_reward = 0
    /\ b_mask = 0
    /\ b_executed = UnboundSlot
    /\ b_q_label = 0
    /\ b_outcome = "none"

\* obj_critic, q_value = self.get_obj_critic(buffer, batch_size) in
\* AgentDQN.update_net, which all four classes inherit: the call goes to
\* what init stored in the instance attribute
UpdateNetObjective ==
    LET fn == GetObjCriticAfterInit(bClass, b_if_use_per)
    IN  /\ b_outcome = "none"
        /\ b_executed' = fn
        /\ IF fn = UnboundSlot
           THEN /\ b_outcome' = "raised"
                /\ UNCHANGED b_q_label
           ELSE /\ b_outcome' = "computed"
                /\ b_q_label' = QLabel(fn, b_reward, b_mask, next_q1, next_q2)
        /\ UNCHANGED <<bClass, b_if_use_per, next_q1, next_q2, b_reward, b_mask,
                       notBoot>>

AgentDQN_update_net_objective ==
    /\ bClass \notin TwinQClasses
    /\ UpdateNetObjective

AgentDoubleDQN_update_net_objective ==
    /\ bClass \in TwinQClasses
    /\ UpdateNetObjective

BootNext ==
    \/ AgentDQN_update_net_objective
    \/ AgentDoubleDQN_update_net_objective

(***************************************************************************)
(* The surrogate objective in update_net of AgentPPO (AgentDiscretePPO     *)
(* inherits it) and AgentSharedPPO, in exact rational arithmetic.          *)
(***************************************************************************)
MaxMinibatch == 2

SurrogateClasses == {"AgentPPO", "AgentSharedPPO"}

\* self.ratio_clip = 0.2 of AgentPPO, self.clip = 0.25 of AgentSharedPPO
ClipAfterInit(c) == IF c = "AgentPPO" THEN Rat(1, 5) ELSE Rat(1, 4)

\* the clip __init__ sets, or another in [0, 1) a caller has set
ClipValues(c) == {ClipAfterInit(c), RInt(0), Rat(9, 10)}

LogprobValues == {-2, -1}

AdvantageValues == {RInt(-2), RInt(1), RInt(3)}

\* tensor.exp() on the differences that occur: exp(0) is exactly 1; e and
\* 1/e are replaced by the rationals 27/10 and 10/27
Exp(d) ==
    CASE d = 0 -> RInt(1)
      [] d = 1 -> Rat(27, 10)
      [] d = -1 -> Rat(10, 27)

\* a clamp that returns its upper limit
RClamp_AlwaysUpper(x, lo, hi) == hi

\* tensor.clamp(lo, hi)
RClamp(x, lo, hi) == IF RLess(x, lo) THEN lo ELSE IF RLess(hi, x) THEN hi ELSE x

\* torch.min of two elements
RMin(x, y) == IF RLess(y, x) THEN y ELSE x

\* ratio = (new_logprob - logprob).exp()
Ratio(new, old) == [k \in 1..Len(new) |-> Exp(new[k] - old[k])]

\* surrogate1 = advantage * ratio
Surrogate1(adv, r) == [k \in 1..Len(adv) |-> RMul(adv[k], r[k])]

\* surrogate2 = advantage * ratio.clamp(1 - clip, 1 + clip)
Surrogate2(adv, r, clip) ==
    [k \in 1..Len(adv) |->
        RMul(adv[k], RClamp(r[k], RSub(RInt(1), clip), RAdd(RInt(1), clip)))]

\* obj_surrogate = -torch.min(surrogate1, surrogate2).mean()
ObjSurrogate(s1, s2) ==
    RMul(RInt(-1), Mean([k \in 1..Len(s1) |-> RMin(s1[k], s2[k])]))

SurrInit ==
    /\ pClass \in SurrogateClasses
    /\ ratio_clip \in ClipValues(pClass)
    /\ \E batch_size \in 1..MaxMinibatch :
         /\ new_logprob \in [1..batch_size -> LogprobValues]
         /\ old_logprob \in [1..batch_size -> LogprobValues]
         /\ mb_advantage \in [1..batch_size -> AdvantageValues]
    /\ ratio = <<>>
    /\ surrogate1 = <<>>
    /\ surrogate2 = <<>>
    /\ obj_surrogate = NotComputed

SurrIdle ==
    /\ pClass = "AgentPPO"
    /\ ratio_clip = RInt(0)
    /\ new_logprob = <<>>
    /\ old_logprob = <<>>
    /\ mb_advantage = <<>>
    /\ ratio = <<>>
    /\ surrogate1 = <<>>
    /\ surrogate2 = <<>>
    /\ obj_surrogate = NotComputed

\* the surrogate lines of one iteration
SurrogateOfIteration ==
    LET r == Ratio(new_logprob, old_logprob)
        s1 == Surrogate1(mb_advantage, r)
        s2 == Surrogate2(mb_advantage, r, ratio_clip)
    IN  /\ obj_surrogate = NotComputed
        /\ ratio' = r
        /\ surrogate1' = s1
        /\ surrogate2' = s2
        /\ obj_surrogate' = ObjSurrogate(s1, s2)
        /\ UNCHANGED <<pClass, ratio_clip, new_logprob, old_logprob, mb_advantage,
                       notSurr>>

AgentPPO_surrogate ==
    /\ pClass = "AgentPPO"
    /\ SurrogateOfIteration

AgentSharedPPO_surrogate ==
    /\ pClass = "AgentSharedPPO"
    /\ SurrogateOfIteration

SurrNext ==
    \/ AgentPPO_surrogate
    \/ AgentSharedPPO_surrogate

(***************************************************************************)
(* AgentBase.save_or_load_agent(cwd, if_save).  A state_dict and the       *)
(* content of a file are named by a string; "absent" is a file that does   *)
(* not exist.  The files that exist hold state_dicts the objects accept.   *)
(***************************************************************************)
MaxSaveCalls == 2

\* name_obj_list, in order
RoleList == <<"actor", "act_target", "act_optim", "critic", "cri_target", "cri_optim">>

SaveObjects == NetObjects \cup {"act_optim", "cri_optim"}

FileContents == {"absent", "fileA", "fileB"}

\* the object bound to a role after init; act_optim of a class without
\* ClassAct is the critic network, and the init of AgentSharedSAC and of
\* AgentSharedPPO leaves act_optim None
RoleObject(c, role) ==
    CASE role = "actor" -> ActAfterInit(c)
      [] role = "act_target" -> ActTargetAfterInit(c)
      [] role = "act_optim" ->
            IF c \in BaseInitClasses
            THEN IF HasClassAct(c) THEN "act_optim" ELSE CriAfterInit(c)
            ELSE "None"
      [] role = "critic" -> CriAfterInit(c)
      [] role = "cri_target" -> CriTargetAfterInit(c)
      [] role = "cri_optim" -> "cri_optim"

\* the load of a role without the test for the file
LoadRole_NoFileTest(st, c, role, fs) ==
    IF RoleObject(c, role) = "None" THEN st
    ELSE [st EXCEPT ![RoleObject(c, role)] = fs[role]]

\* load_torch_file(obj, save_path) if os.path.isfile(save_path) else None,
\* for a role that name_obj_list kept
LoadRole(st, c, role, fs) ==
    IF RoleObject(c, role) = "None" \/ fs[role] = "absent" THEN st
    ELSE [st EXCEPT ![RoleObject(c, role)] = fs[role]]

\* the loop of the load branch over the roles from position k on
RECURSIVE LoadLoop(_, _, _, _)
LoadLoop(st, c, k, fs) ==
    IF k > Len(RoleList) THEN st
    ELSE LoadLoop(LoadRole(st, c, RoleList[k], fs), c, k + 1, fs)

\* the roles the load branch loads, in order
LoadedRoles(c, fs) ==
    SelectSeq(RoleList,
              LAMBDA role : RoleObject(c, role) # "None" /\ fs[role] # "absent")

\* the files after the loop of the save branch
SaveLoop(st, c, fs) ==
    [role \in DOMAIN fs |->
        IF RoleObject(c, role) = "None" THEN fs[role]
        ELSE st[RoleObject(c, role)]]

SaveInit ==
    /\ svClass \in AgentClasses
    /\ obj_state = [o \in SaveObjects |-> "after_init"]
    /\ files \in [{RoleList[k] : k \in 1..Len(RoleList)} -> FileContents]
    /\ last_if_save = "none"
    /\ prev_obj_state = obj_state
    /\ prev_files = files
    /\ loaded = <<>>
    /\ saveCalls = 0

SaveIdle ==
    /\ svClass = "AgentDQN"
    /\ obj_state = <<>>
    /\ files = <<>>
    /\ last_if_save = "none"
    /\ prev_obj_state = <<>>
    /\ prev_files = <<>>
    /\ loaded = <<>>
    /\ saveCalls = 0

save_or_load_agent ==
    /\ saveCalls < MaxSaveCalls
    /\ saveCalls' = saveCalls + 1
    /\ prev_obj_state' = obj_state
    /\ prev_files' = files
    /\ \E if_save \in BOOLEAN :
         IF if_save
         THEN /\ files' = SaveLoop(obj_state, svClass, files)
              /\ loaded' = <<>>
              /\ last_if_save' = "True"
              /\ UNCHANGED obj_state
         ELSE /\ obj_state' = LoadLoop(obj_state, svClass, 1, files)
              /\ loaded' = LoadedRoles(svClass, files)
              /\ last_if_save' = "False"
              /\ UNCHANGED files
    /\ UNCHANGED <<svClass, notSave>>

SaveNext == save_or_load_agent

(***************************************************************************)
(* init(net_dim, state_dim, action_dim, learning_rate, if_per_or_gae,      *)
(* env_num, gpu_id) of every class: what it makes of env_num and gpu_id.   *)
(***************************************************************************)
MaxInitCalls == 2
MaxGpuId == 2

\* gpu_id: -1 asks for the cpu
GpuIds == -1..MaxGpuId

\* the sixth positional argument AgentBase.init receives: AgentSAC.init
\* passes its gpu_id there
EnvNumOfBaseInit(c, env_num, gpu_id) ==
    IF c \in SACFamily THEN gpu_id ELSE env_num

\* len(self.trajectory_list) after init: range(n) is empty for n <= 0;
\* AgentPPO.init builds the list again from its own env_num; a class whose
\* init does not call AgentBase.init keeps the None of __init__
TrajectoryListLenAfterInit(c, env_num, gpu_id) ==
    CASE c \in PPOFamily -> env_num
      [] c \in BaseInitClasses ->
            IF EnvNumOfBaseInit(c, env_num, gpu_id) > 0
            THEN EnvNumOfBaseInit(c, env_num, gpu_id) ELSE 0
      [] OTHER -> -1

\* self.explore_env after init
ExploreEnvOfInit(c, env_num, gpu_id) ==
    IF c \in BaseInitClasses
    THEN ExploreEnvAfterInit(c, EnvNumOfBaseInit(c, env_num, gpu_id))
    ELSE UnboundSlot

IniInit ==
    /\ iClass \in AgentClasses
    /\ arg_env_num = 0
    /\ arg_gpu_id = 0
    /\ trajectory_list_len = -1
    /\ i_explore_env = UnboundSlot
    /\ initCalls = 0

IniIdle ==
    /\ iClass = "AgentDQN"
    /\ arg_env_num = 0
    /\ arg_gpu_id = 0
    /\ trajectory_list_len = -1
    /\ i_explore_env = UnboundSlot
    /\ initCalls = 0

\* one call of init with the caller's env_num and gpu_id
InitCall ==
    /\ initCalls < MaxInitCalls
    /\ initCalls' = initCalls + 1
    /\ \E env_num \in 1..MaxEnv, gpu_id \in GpuIds :
         /\ arg_env_num' = env_num
         /\ arg_gpu_id' = gpu_id
         /\ trajectory_list_len' = TrajectoryListLenAfterInit(iClass, env_num, gpu_id)
         /\ i_explore_env' = ExploreEnvOfInit(iClass, env_num, gpu_id)
    /\ UNCHANGED <<iClass, notIni>>

\* AgentBase.init, reached unchanged or through an init that hands on
\* env_num and gpu_id in their places
AgentBase_init ==
    /\ iClass \in BaseInitClasses \ (SACFamily \cup PPOFamily)
    /\ InitCall

AgentSAC_init ==
    /\ iClass \in SACFamily
    /\ InitCall

AgentPPO_init ==
    /\ iClass \in PPOFamily
    /\ InitCall

AgentSharedSAC_init ==
    /\ iClass = "AgentSharedSAC"
    /\ InitCall

AgentSharedPPO_init ==
    /\ iClass = "AgentSharedPPO"
    /\ InitCall

IniNext ==
    \/ AgentBase_init
    \/ AgentSAC_init
    \/ AgentPPO_init
    \/ AgentSharedSAC_init
    \/ AgentSharedPPO_init

(***************************************************************************)
(* Specifications: one per part of the agent.                              *)
(***************************************************************************)
InitExplore ==
    /\ ExploreInit
    /\ SoftIdle
    /\ UpdIdle
    /\ RsIdle
    /\ SaIdle
    /\ ObjIdle
    /\ AlphaIdle
    /\ BootIdle
    /\ SurrIdle
    /\ SaveIdle
    /\ IniIdle

SpecExplore == InitExplore /\ [][ExploreNext]_vars

InitSoft ==
    /\ SoftInit
    /\ ExploreIdle
    /\ UpdIdle
    /\ RsIdle
    /\ SaIdle
    /\ ObjIdle
    /\ AlphaIdle
    /\ BootIdle
    /\ SurrIdle
    /\ SaveIdle
    /\ IniIdle

SpecSoft == InitSoft /\ [][SoftNext]_vars

InitUpd ==
    /\ UpdInit
    /\ ExploreIdle
    /\ SoftIdle
    /\ RsIdle
    /\ SaIdle
    /\ ObjIdle
    /\ AlphaIdle
    /\ BootIdle
    /\ SurrIdle
    /\ SaveIdle
    /\ IniIdle

SpecUpd == InitUpd /\ [][UpdNext]_vars

InitRs ==
    /\ RsInit
    /\ ExploreIdle
    /\ SoftIdle
    /\ UpdIdle
    /\ SaIdle
    /\ ObjIdle
    /\ AlphaIdle
    /\ BootIdle
    /\ SurrIdle
    /\ SaveIdle
    /\ IniIdle

SpecRs == InitRs /\ [][RsNext]_vars

InitSa ==
    /\ SaInit
    /\ ExploreIdle
    /\ SoftIdle
    /\ UpdIdle
    /\ RsIdle
    /\ ObjIdle
    /\ AlphaIdle
    /\ BootIdle
    /\ SurrIdle
    /\ SaveIdle
    /\ IniIdle

SpecSa == InitSa /\ [][SaNext]_vars

InitObj ==
    /\ ObjInit
    /\ ExploreIdle
    /\ SoftIdle
    /\ UpdIdle
    /\ RsIdle
    /\ SaIdle
    /\ AlphaIdle
    /\ BootIdle
    /\ SurrIdle
    /\ SaveIdle
    /\ IniIdle

SpecObj == InitObj /\ [][ObjNext]_vars

InitAlpha ==
    /\ AlphaInit
    /\ ExploreIdle
    /\ SoftIdle
    /\ UpdIdle
    /\ RsIdle
    /\ SaIdle
    /\ ObjIdle
    /\ BootIdle
    /\ SurrIdle
    /\ SaveIdle
    /\ IniIdle

SpecAlpha == InitAlpha /\ [][AlphaNext]_vars

InitBoot ==
    /\ BootInit
    /\ ExploreIdle
    /\ SoftIdle
    /\ UpdIdle
    /\ RsIdle
    /\ SaIdle
    /\ ObjIdle
    /\ AlphaIdle
    /\ SurrIdle
    /\ SaveIdle
    /\ IniIdle

SpecBoot == InitBoot /\ [][BootNext]_vars

InitSurr ==
    /\ SurrInit
    /\ ExploreIdle
    /\ SoftIdle
    /\ UpdIdle
    /\ RsIdle
    /\ SaIdle
    /\ ObjIdle
    /\ AlphaIdle
    /\ BootIdle
    /\ SaveIdle
    /\ IniIdle

SpecSurr == InitSurr /\ [][SurrNext]_vars

InitSave ==
    /\ SaveInit
    /\ ExploreIdle
    /\ SoftIdle
    /\ UpdIdle
    /\ RsIdle
    /\ SaIdle
    /\ ObjIdle
    /\ AlphaIdle
    /\ BootIdle
    /\ SurrIdle
    /\ IniIdle

SpecSave == InitSave /\ [][SaveNext]_vars

InitIni ==
    /\ IniInit
    /\ ExploreIdle
    /\ SoftIdle
    /\ UpdIdle
    /\ RsIdle
    /\ SaIdle
    /\ ObjIdle
    /\ AlphaIdle
    /\ BootIdle
    /\ SurrIdle
    /\ SaveIdle

SpecIni == InitIni /\ [][IniNext]_vars

(***************************************************************************)
(* Properties of the on-policy collection.                                 *)
(***************************************************************************)
\* every transition an environment step has generated so far
Generated ==
    {p \in (DOMAIN stepCount) \X (1..MaxCalls * MaxTargetStep) :
        p[2] <= stepCount[p[1]]}

\* the lists returned so far followed by the stored tails
ReturnedAndTail == returned \o Flatten(trajectory_list)

Occurrences(p) ==
    Cardinality({k \in 1..Len(ReturnedAndTail) :
                   /\ ReturnedAndTail[k].env = p[1]
                   /\ ReturnedAndTail[k].n = p[2]})

\* C1: after any sequence of collection calls, every transition generated by
\* an environment step appears exactly once in the lists returned so far
\* followed by the tail stored in self.trajectory_list.
C1_EveryTransitionExactlyOnce ==
    agentClass \in OnPolicyClasses =>
        \A p \in Generated : Occurrences(p) = 1

\* C2: for each environment, what a collection call contributes to the
\* returned list from its own steps is empty or ends with a done transition,
\* and is empty when no episode ended during the call.
C2_ReturnedEndsWithDone ==
    agentClass \in OnPolicyClasses =>
        \A e \in DOMAIN lastCurrent :
            /\ lastCurrent[e] # <<>> => lastCurrent[e][Len(lastCurrent[e])].done
            /\ (exploreCalls > 0 /\ ~lastDoneSeen[e]) => lastCurrent[e] = <<>>

\* C16: in every collection operation, whenever a step reports done the
\* environment's reset is called before the next step, and the state
\* recorded in that environment's next transition is the state reset
\* returned.
C16_ResetAfterDone ==
    /\ \A e \in DOMAIN resetCalls :
          resetCalls[e] =
              Cardinality({n \in 1..stepCount[e] :
                  \E k \in 1..Len(ReturnedAndTail) :
                      /\ ReturnedAndTail[k].env = e
                      /\ ReturnedAndTail[k].n = n
                      /\ ReturnedAndTail[k].done})
    /\ \A j, k \in 1..Len(ReturnedAndTail) :
          (/\ ReturnedAndTail[j].env = ReturnedAndTail[k].env
           /\ ReturnedAndTail[k].n = ReturnedAndTail[j].n + 1
           /\ ReturnedAndTail[j].done)
              => ReturnedAndTail[k].state = ResetState

(***************************************************************************)
(* Properties of soft_update.                                              *)
(***************************************************************************)
\* C3: soft_update sets every target parameter to target*(1-tau) + online*tau
\* and leaves the online parameters unchanged, so after n calls
\* |target - online| = |target0 - online| * (1-tau)^n; target 0, online 1,
\* tau 0.1 gives 0.1 after one call and 0.19 after two.
C3_SoftUpdateGeometric ==
    /\ current_net = current0
    /\ \A k \in 1..NumParams :
          /\ RAbs(RSub(target_net[k], current_net[k]))
               = RMul(RAbs(RSub(target0[k], current_net[k])),
                      RPow(RSub(RInt(1), tau), softCalls))
          /\ (target0[k] = RInt(0) /\ current_net[k] = RInt(1) /\ tau = Rat(1, 10)) =>
                /\ softCalls = 1 => target_net[k] = Rat(1, 10)
                /\ softCalls = 2 => target_net[k] = Rat(19, 100)

C3_Witness ==
    /\ softCalls = 2
    /\ tau = Rat(1, 10)
    /\ target0[1] = RInt(0)
    /\ current_net[1] = RInt(1)
    /\ target_net[1] = Rat(19, 100)

(***************************************************************************)
(* Properties of init and update_net.                                      *)
(***************************************************************************)
\* the target of a role follows the role's flag: the online object itself
\* when the flag is not set, else another object written by soft_update or
\* the hard copy only
FollowsFlag(flag, target, online) ==
    IF flag
    THEN /\ target \in NetObjects \ {online}
         /\ writers[target] \subseteq {"soft", "hard"}
    ELSE target = online

C11_TD3DelayedActorAndTargets ==
    uClass = "AgentTD3" =>
        \A k \in 1..Len(log) :
            (\/ log[k].op = "soft_update"
             \/ (log[k].op = "optim_update" /\ log[k].arg = "act_optim"))
                => log[k].it % update_freq = 0

\* the actor's optimizer steps of the last call before position k of the log
ActorStepsBefore(k) ==
    Cardinality({j \in 1..(k - 1) :
                   log[j].op = "optim_update" /\ log[j].arg = "act_optim"})

\* the operations of iteration i of the last call
OpsOfIteration(i) == SelectSeq(log, LAMBDA ev : ev.it = i)

\* C12: in every iteration of AgentModSAC.update_net the actor's optimizer
\* step and the actor-target soft update are performed if and only if
\* actorUpdateCount / criticUpdateCount < 1 / (2 - reliable_lambda), with the
\* counts before this iteration's increment; when the test fails the
\* iteration updates the critic, its target and the temperature only.
\* With reliable_lambda = p/q the test is a * (2q - p) < c * q.
C12_ModSACActorIffTest ==
    uClass = "AgentModSAC" =>
        \A k \in 1..Len(log) :
            log[k].op = "if_update_a" =>
                LET c == log[k].it
                    a == ActorStepsBefore(k)
                    lam == log[k].arg[2]
                    test == a * (2 * lam[2] - lam[1]) < c * lam[2]
                    ops == OpsOfIteration(c)
                    rest == SubSeq(ops, 2, Len(ops))
                IN  /\ ops[1].op = "sample_batch"
                    /\ test =>
                          [j \in 1..Len(rest) |-> <<rest[j].op, rest[j].arg>>] =
                            << <<"optim_update", "cri_optim">>,
                               <<"soft_update", cri_target>>,
                               <<"optim_update", "alpha_optim">>,
                               <<"clamp", <<-16, 2>> >>,
                               <<"if_update_a", <<a, lam, TRUE>> >>,
                               <<"optim_update", "act_optim">>,
                               <<"soft_update", act_target>> >>
                    /\ ~test =>
                          [j \in 1..Len(rest) |-> <<rest[j].op, rest[j].arg>>] =
                            << <<"optim_update", "cri_optim">>,
                               <<"soft_update", cri_target>>,
                               <<"optim_update", "alpha_optim">>,
                               <<"clamp", <<-16, 2>> >>,
                               <<"if_update_a", <<a, lam, FALSE>> >> >>

C12_Witness ==
    /\ uClass = "AgentModSAC"
    /\ outcome = "returned"
    /\ \E k \in 1..Len(log) :
          /\ log[k].op = "if_update_a"
          /\ log[k].it = 3
          /\ log[k].arg = <<2, Rat(1, 10), FALSE>>
    /\ \E k \in 1..Len(log) :
          /\ log[k].op = "if_update_a"
          /\ log[k].it = 4
          /\ log[k].arg[3]
    /\ ActorStepsBefore(Len(log) + 1) = 3

\* the values of lamb of the iterations of the last call
LambsOfCall ==
    SelectSeq(log, LAMBDA ev : ev.op = "lamb")

\* C13: an update_net call of AgentSharedAC with at least update_freq
\* iterations, in all of which lamb > 0.1, replaces the target by a hard
\* copy of the online network at least once.
C13_SharedACHardCopy ==
    (/\ uClass = "AgentSharedAC"
     /\ outcome = "returned"
     /\ Len(LambsOfCall) >= update_freq
     /\ \A k \in 1..Len(LambsOfCall) :
           LambsOfCall[k].arg[1] * 10 > LambsOfCall[k].arg[2])
        => \E k \in 1..Len(log) : log[k].op = "hard_copy"

SharedClasses == {"AgentSharedAC", "AgentSharedSAC", "AgentSharedPPO"}

\* the optimizers stepped by a list of operations, in order
OptimStepsIn(ops) ==
    LET steps == SelectSeq(ops, LAMBDA ev : ev.op = "optim_update")
    IN  [k \in 1..Len(steps) |-> steps[k].arg]

\* C18: in AgentSharedAC, AgentSharedSAC and AgentSharedPPO every iteration
\* of update_net performs exactly one optimizer step, the one on the united
\* loss with the optimizer of the shared network; no iteration performs two
\* steps.  The loop bodies of AgentSharedSAC and AgentSharedPPO, which no
\* call reaches, are held to the same.
C18_SharedOneOptimizerStep ==
    /\ uClass \in SharedClasses =>
          \A k \in 1..Len(log) :
              OptimStepsIn(OpsOfIteration(log[k].it)) = <<"cri_optim">>
    /\ uClass = "AgentSharedSAC" =>
          \A lams \in [1..2 -> ReliableLambdas] : \A i \in 1..2 :
              OptimStepsIn(SharedSACIter(i, lams)) = <<"cri_optim">>
    /\ uClass = "AgentSharedPPO" =>
          OptimStepsIn(SharedPPOIter(0)) = <<"cri_optim">>

C18_Witness ==
    /\ uClass = "AgentSharedAC"
    /\ outcome = "returned"
    /\ Len(LambsOfCall) = 3
    /\ OptimStepsIn(log) = <<"cri_optim", "cri_optim", "cri_optim">>
    /\ OptimStepsIn(OpsOfIteration(2)) = <<"cri_optim">>

\* the optimizer steps of the last call on the critic's optimizer
CriticSteps ==
    Cardinality({k \in 1..Len(log) :
                   log[k].op = "optim_update" /\ log[k].arg = "cri_optim"})

RSumRecurrence ==
    \A k \in 1..buf_len :
        ary_r_sum[k] =
            RAdd(ary_reward[k],
                 RMul(ary_mask[k],
                      IF k = buf_len THEN RInt(0) ELSE ary_r_sum[k + 1]))

\* C6: get_reward_sum_raw returns r_sum[i] = reward[i] + mask[i]*r_sum[i+1]
\* with r_sum[n] = 0 and advantage[i] = r_sum[i] - mask[i]*value[i]; rewards
\* [1,1,1] with masks [1,1,0] give [3,2,1], and a step with mask 0 has r_sum
\* equal to its own reward.
C6_RawRewardSum ==
    estimator = "raw" =>
        /\ RSumRecurrence
        /\ \A k \in 1..buf_len :
              /\ ary_advantage[k] =
                    RSub(ary_r_sum[k], RMul(ary_mask[k], ary_value[k]))
              /\ ary_mask[k] = RInt(0) => ary_r_sum[k] = ary_reward[k]
        /\ (/\ ary_reward = <<RInt(1), RInt(1), RInt(1)>>
            /\ ary_mask = <<RInt(1), RInt(1), RInt(0)>>)
              => ary_r_sum = <<RInt(3), RInt(2), RInt(1)>>

C6_Witness ==
    /\ estimator = "raw"
    /\ ary_reward = <<RInt(1), RInt(1), RInt(1)>>
    /\ ary_mask = <<RInt(1), RInt(1), RInt(0)>>
    /\ ary_r_sum = <<RInt(3), RInt(2), RInt(1)>>
    /\ ary_value = <<RInt(2), RInt(2), RInt(2)>>
    /\ ary_advantage = <<RInt(1), RInt(0), RInt(1)>>

\* prevAdvantage when index k is computed
PrevAdvantage(k) ==
    IF k = buf_len THEN RInt(0)
    ELSE RAdd(ary_value[k + 1], RMul(ary_advantage[k + 1], LambdaGaeAdv))

\* C7: get_reward_sum_gae computes r_sum[i] = reward[i] + mask[i]*r_sum[i+1]
\* and advantage[i] = reward[i] + mask[i]*(prevAdvantage - value[i]) with
\* prevAdvantage = value[i+1] + advantage[i+1]*lambda_gae (0 past the end);
\* at a step with mask 0 the advantage is the reward.
C7_GaeRewardSum ==
    estimator = "gae" =>
        /\ RSumRecurrence
        /\ \A k \in 1..buf_len :
              /\ ary_advantage[k] =
                    RAdd(ary_reward[k],
                         RMul(ary_mask[k], RSub(PrevAdvantage(k), ary_value[k])))
              /\ ary_mask[k] = RInt(0) => ary_advantage[k] = ary_reward[k]

C7_Witness ==
    /\ estimator = "gae"
    /\ buf_len = 3
    /\ ary_mask = <<RInt(1), RInt(0), Rat(1, 2)>>
    /\ ary_reward = <<RInt(1), RInt(1), RInt(1)>>
    /\ ary_value = <<RInt(2), RInt(2), RInt(2)>>
    /\ ary_advantage = <<Rat(99, 50), RInt(1), RInt(0)>>

(***************************************************************************)
(* Properties of select_action.                                            *)
(***************************************************************************)
\* C8: with explore_rate = 0, select_action of every discrete value-based
\* agent returns the arg-max index of the online critic's output, for every
\* state and every random draw, and never takes the random branch.
C8_GreedyWhenRateZero ==
    (explore_rate = RInt(0) /\ branch # "none") =>
        /\ branch = "greedy"
        /\ \A j \in 1..action_dim : q_out[j] <= q_out[a_int + 1]
        /\ \A j \in 1..a_int : q_out[j] < q_out[a_int + 1]

C8_Witness ==
    /\ explore_rate = RInt(0)
    /\ saClass = "AgentD3QN"
    /\ rand_draw = RInt(0)
    /\ branch = "greedy"
    /\ q_out = <<0, 2, 2>>
    /\ a_int = 1

(***************************************************************************)
(* Properties of the critic objectives.                                    *)
(***************************************************************************)
\* C9: every call of a prioritized critic objective (get_obj_critic_per of
\* AgentDQN, AgentDDPG, AgentTD3, AgentSAC) calls buffer.td_error_update
\* exactly once, after sampling the batch and before returning.
C9_PerObjectiveUpdatesTdError ==
    obj_per # NotComputed =>
        /\ Len(per_ops) = 2
        /\ per_ops[1].op = "sample_batch"
        /\ per_ops[2].op = "td_error_update"

\* C10: on the same batch and network outputs, if every importance weight
\* is 1 the prioritized critic objective equals the unweighted one, for
\* AgentDQN, AgentDDPG, AgentTD3 and AgentSAC.
C10_UnitWeightsNeutral ==
    (/\ \A k \in 1..Len(is_weights) : is_weights[k] = RInt(1)
     /\ obj_raw # NotComputed
     /\ obj_per # NotComputed)
        => obj_per = obj_raw

C10_Witness ==
    /\ objClass = "AgentTD3"
    /\ is_weights = <<RInt(1), RInt(1)>>
    /\ q1 = <<Rat(1, 2), RInt(3)>>
    /\ q2 = <<RInt(3), RInt(3)>>
    /\ q_label = <<RInt(0), RInt(1)>>
    /\ obj_raw = Rat(45, 16)
    /\ obj_per = Rat(45, 16)

MaxOfTwinMin ==
    LET mins == {Min(next_q1[a], next_q2[a]) : a \in DOMAIN next_q1}
    IN  CHOOSE x \in mins : \A y \in mins : y <= x

\* C15: for AgentDoubleDQN and AgentD3QN the critic objective update_net
\* executes after init computes the bootstrap target as
\* reward + mask * max_a(min(targetQ1, targetQ2)[a]).
C15_DoubleDQNTwinMinTarget ==
    (bClass \in TwinQClasses /\ b_outcome # "none") =>
        /\ b_outcome = "computed"
        /\ b_q_label = b_reward + b_mask * MaxOfTwinMin

(***************************************************************************)
(* Properties of the PPO surrogate.                                        *)
(***************************************************************************)
\* C17: if the new and old log-probabilities are identical for every sample
\* of the minibatch, the ratio is exactly 1, the clipped and unclipped
\* surrogate terms are equal, and the surrogate objective is
\* -mean(advantage), for every clip in [0, 1) and all advantages.
C17_EqualLogprobSurrogate ==
    (obj_surrogate # NotComputed /\ new_logprob = old_logprob) =>
        /\ \A k \in 1..Len(ratio) : ratio[k] = RInt(1)
        /\ surrogate1 = surrogate2
        /\ obj_surrogate = Rat(-RSum(mb_advantage)[1], RSum(mb_advantage)[2] * Len(mb_advantage))

C17_Witness ==
    /\ pClass = "AgentPPO"
    /\ ratio_clip = Rat(1, 5)
    /\ new_logprob = <<-1, -2>>
    /\ old_logprob = <<-1, -2>>
    /\ mb_advantage = <<RInt(-2), RInt(3)>>
    /\ ratio = <<RInt(1), RInt(1)>>
    /\ surrogate2 = <<RInt(-2), RInt(3)>>
    /\ obj_surrogate = Rat(-1, 2)

(***************************************************************************)
(* Properties of save_or_load_agent.                                       *)
(***************************************************************************)
Roles == {RoleList[k] : k \in 1..Len(RoleList)}

\* the roles among rs whose load the last call performed
WasLoaded(role) == \E k \in 1..Len(loaded) : loaded[k] = role

\* after a save, one file holds the state of every role that is not None,
\* and no other file was written
SavedEveryRole ==
    last_if_save = "True" =>
        /\ obj_state = prev_obj_state
        /\ \A role \in Roles :
              IF RoleObject(svClass, role) = "None"
              THEN files[role] = prev_files[role]
              ELSE files[role] = obj_state[RoleObject(svClass, role)]

\* C19 as stated: a load leaves the state of every role whose file is
\* absent unchanged and loads the roles whose file is present; a save
\* writes one file for every role that is not None.
C19_LoadSkipsAbsentFiles_StateUnchanged ==
    /\ SavedEveryRole
    /\ last_if_save = "False" =>
          /\ files = prev_files
          /\ \A role \in Roles :
                RoleObject(svClass, role) # "None" =>
                    /\ WasLoaded(role) <=> files[role] # "absent"
                    /\ files[role] = "absent" =>
                          obj_state[RoleObject(svClass, role)] =
                              prev_obj_state[RoleObject(svClass, role)]

\* the positions in name_obj_list of the roles bound to object o whose
\* file is present
PresentRolesOf(o) ==
    {k \in 1..Len(RoleList) :
        RoleObject(svClass, RoleList[k]) = o /\ files[RoleList[k]] # "absent"}

\* C19 amended: a load performs, without error, the load of exactly the
\* roles that are not None and whose file is present, in the order of the
\* list; an object is left unchanged when the file of every role bound to
\* it is absent, and otherwise holds the content of the last present file
\* among its roles, so a role whose own file is absent changes when it
\* shares its object with a role whose file is present.
C19_LoadSkipsAbsentFiles ==
    /\ SavedEveryRole
    /\ last_if_save = "False" =>
          /\ files = prev_files
          /\ \A role \in Roles :
                RoleObject(svClass, role) # "None" =>
                    (WasLoaded(role) <=> files[role] # "absent")
          /\ \A o \in SaveObjects :
                IF PresentRolesOf(o) = {}
                THEN obj_state[o] = prev_obj_state[o]
                ELSE obj_state[o] =
                       files[RoleList[CHOOSE k \in PresentRolesOf(o) :
                                         \A j \in PresentRolesOf(o) : j <= k]]

C19_Witness ==
    /\ svClass = "AgentDQN"
    /\ last_if_save = "False"
    /\ files["actor"] = "fileA"
    /\ files["critic"] = "absent"
    /\ files["act_optim"] = "absent"
    /\ files["act_target"] = "absent"
    /\ files["cri_target"] = "absent"
    /\ files["cri_optim"] = "fileB"
    /\ loaded = <<"actor", "cri_optim">>
    /\ obj_state["cri"] = "fileA"
    /\ obj_state["cri_copy"] = "after_init"
    /\ obj_state["cri_optim"] = "fileB"

(***************************************************************************)
(* Properties of the strategy slots.                                       *)
(***************************************************************************)
\* the classes whose init assigns self.get_obj_critic by if_use_per
ObjCriticSlotClasses == DQNFamily \cup SACFamily \cup {"AgentDDPG", "AgentTD3"}

\* the classes that call self.get_reward_sum
RewardSumSlotClasses == PPOFamily \cup {"AgentSharedPPO"}

\* C20: after init and after every later update_net, get_obj_critic of an
\* off-policy agent is a callable, the prioritized objective iff if_use_per
\* and the raw one otherwise, and get_reward_sum of AgentPPO,
\* AgentDiscretePPO and AgentSharedPPO is a callable, the GAE estimator iff
\* if_per_or_gae and the raw one otherwise.
C20_StrategySlotMatchesFlag ==
    /\ uClass \in ObjCriticSlotClasses =>
          /\ get_obj_critic # UnboundSlot
          /\ get_obj_critic[2] = IF if_use_per THEN "get_obj_critic_per"
                                              ELSE "get_obj_critic_raw"
    /\ uClass \in RewardSumSlotClasses =>
          get_reward_sum = IF if_use_per THEN "get_reward_sum_gae"
                                         ELSE "get_reward_sum_raw"

(***************************************************************************)
(* Properties of the collection entry point.                               *)
(***************************************************************************)
\* C21: for AgentPPO and AgentDiscretePPO initialised with env_num = 1,
\* agent.explore_env is the on-policy single-environment routine of the
\* class, and a call of it whose last step left an episode open stores
\* that trailing part, up to the last step collected, in trajectory_list[0].
C21_DriverEntryPointIsOnPolicyRoutine ==
    (agentClass \in OnPolicyClasses /\ Len(trajectory_list) = 1) =>
        /\ explore_env = <<agentClass, "explore_env">>
        /\ (lastCall # DirectCall /\ lastCall.open) =>
              /\ trajectory_list[1] # <<>>
              /\ trajectory_list[1][Len(trajectory_list[1])].n = stepCount[1]

(***************************************************************************)
(* Properties of init.                                                     *)
(***************************************************************************)
\* C22: after init of any class, the collection mode is the vectorized one
\* exactly when the caller's env_num > 1 and the single-environment one
\* otherwise, and trajectory_list has env_num entries, whatever gpu_id is.
C22_ModeAndListFollowEnvNum ==
    initCalls > 0 =>
        /\ i_explore_env[2] = IF arg_env_num > 1 THEN "explore_vec_env"
                                                 ELSE "explore_one_env"
        /\ trajectory_list_len = arg_env_num

(***************************************************************************)
(* Properties of update_net without an iteration.                          *)
(***************************************************************************)
\* the number of times the loop body of the last call ran, had nothing
\* raised: the loops of AgentModSAC and AgentSharedSAC start at 1
LoopIterationsOfCall ==
    LET n == IterCount(callInput[1], callInput[2], callInput[3])
    IN  IF uClass \in {"AgentModSAC", "AgentSharedSAC"}
        THEN IF n > 1 THEN n - 1 ELSE 0
        ELSE n

\* C23: a call of update_net whose loop has no iteration performs no
\* optimizer step and no target update and returns its diagnostics without
\* raising.
C23_ZeroIterationsReturns ==
    (updCalls > 0 /\ LoopIterationsOfCall = 0) =>
        /\ log = <<>>
        /\ outcome = "returned"

(***************************************************************************)
(* Properties of the actor counter of the two-timescale rule.              *)
(***************************************************************************)
\* update_a at the end of the iteration that logged event k
UpdateAAfter(k) ==
    Cardinality({j \in 1..k : log[j].op = "if_update_a" /\ log[j].arg[3]})

\* the number of iterations over which the loop body of
\* AgentSharedSAC.update_net is examined
SharedSACIterations == MaxBufLen + MaxBatch

\* 1 <= update_a <= update_c and 2 * update_a >= update_c
CounterInBounds(update_a, update_c) ==
    /\ 1 <= update_a
    /\ update_a <= update_c
    /\ 2 * update_a >= update_c

=============================================================================
